---- MODULE Spec2Model ----
(***************************************************************************)
(* Rules-based schema markup pipeline: parseHint, classifyPage,            *)
(* applyPolicy, assembleSchema and validateSchema.  A JavaScript string is *)
(* a TLA+ string; Chars gives its characters as a sequence of              *)
(* one-character strings, and every string operation of the code           *)
(* (toLowerCase, includes, the regular expressions) works on that          *)
(* sequence.  Confidence values are in hundredths (0.75 is 75).  A         *)
(* JavaScript object with optional keys is a function whose DOMAIN holds   *)
(* exactly the keys that were assigned.  The values of a JSON-LD document  *)
(* carry their JavaScript type.                                            *)
(***************************************************************************)
EXTENDS Integers, Sequences, FiniteSets, TLC

VARIABLES
  pc,               \* the stage the request has reached
  hint,             \* the request's hint string
  directive,        \* the HintDirective parseHint returned
  content,          \* the NormalizedContent of the page
  classification,   \* the Classification object
  classification0,  \* the Classification as it was when applyPolicy was called
  policyResult,     \* the PolicyResult applyPolicy returned
  jsonld,           \* the JSON-LD document assembleSchema returned
  validation        \* the ValidationResult validateSchema returned

vars ==
  <<pc, hint, directive, content, classification, classification0, policyResult,
    jsonld, validation>>

\* ------------------------------------------------------------------ bounds
\* Largest number of domSignals that are true on an enumerated page.
MaxTrueSignals == 4

\* Longest feature list of an enumerated Classification handed to applyPolicy
\* or PolicyResult handed to assembleSchema.
MaxFeatures == 2

\* Longest @graph of an enumerated document handed to validateSchema.
MaxGraph == 2

\* ---------------------------------------------------------- JavaScript values
\* The JavaScript value undefined.
Undefined == "undefined"

\* The object literal {}.
EmptyObject == [k \in {} |-> TRUE]

Has(obj, key) == key \in DOMAIN obj

Min(S) == CHOOSE m \in S : \A n \in S : m <= n

Range(seq) == {seq[i] : i \in 1..Len(seq)}

\* ------------------------------------------------------------ string helpers
UpperLetters ==
  {"A","B","C","D","E","F","G","H","I","J","K","L","M",
   "N","O","P","Q","R","S","T","U","V","W","X","Y","Z"}

LowerLetters ==
  {"a","b","c","d","e","f","g","h","i","j","k","l","m",
   "n","o","p","q","r","s","t","u","v","w","x","y","z"}

Digits == {"0","1","2","3","4","5","6","7","8","9"}

\* \s of a regular expression, and what String.prototype.trim removes.
Whitespace == {" ", "\t", "\n"}

\* \w of a regular expression.
WordChars == UpperLetters \cup LowerLetters \cup Digits \cup {"_"}

LowerOf ==
     ("A" :> "a") @@ ("B" :> "b") @@ ("C" :> "c") @@ ("D" :> "d") @@ ("E" :> "e")
  @@ ("F" :> "f") @@ ("G" :> "g") @@ ("H" :> "h") @@ ("I" :> "i") @@ ("J" :> "j")
  @@ ("K" :> "k") @@ ("L" :> "l") @@ ("M" :> "m") @@ ("N" :> "n") @@ ("O" :> "o")
  @@ ("P" :> "p") @@ ("Q" :> "q") @@ ("R" :> "r") @@ ("S" :> "s") @@ ("T" :> "t")
  @@ ("U" :> "u") @@ ("V" :> "v") @@ ("W" :> "w") @@ ("X" :> "x") @@ ("Y" :> "y")
  @@ ("Z" :> "z")

DigitValue ==
     ("0" :> 0) @@ ("1" :> 1) @@ ("2" :> 2) @@ ("3" :> 3) @@ ("4" :> 4)
  @@ ("5" :> 5) @@ ("6" :> 6) @@ ("7" :> 7) @@ ("8" :> 8) @@ ("9" :> 9)

\* String.prototype.toLowerCase
ToLowerCase(s) ==
  [i \in 1..Len(s) |-> IF s[i] \in UpperLetters THEN LowerOf[s[i]] ELSE s[i]]

\* pat occurs in s at position i
MatchAt(s, i, pat) ==
  /\ i >= 1
  /\ i + Len(pat) - 1 <= Len(s)
  /\ \A k \in 1..Len(pat) : s[i + k - 1] = pat[k]

\* String.prototype.includes
Includes(s, pat) == \E i \in 1..(Len(s) - Len(pat) + 1) : MatchAt(s, i, pat)

\* RegExp.prototype.test for an alternation of literal words
TestAny(s, pats) == \E p \in pats : Includes(s, p)

\* String.prototype.trim leaves the empty string
IsBlank(s) == \A i \in 1..Len(s) : s[i] \in Whitespace

\* \b before position i (between s[i-1] and s[i])
WordBoundary(s, i) ==
  LET before == i - 1 >= 1 /\ i - 1 <= Len(s) /\ s[i - 1] \in WordChars
      after  == i >= 1 /\ i <= Len(s) /\ s[i] \in WordChars
  IN  before # after

\* the end of the longest run of characters of class cls starting at i
\* (i - 1 when s[i] is not in cls)
RECURSIVE RunEnd(_, _, _)
RunEnd(s, i, cls) ==
  IF i <= Len(s) /\ s[i] \in cls THEN RunEnd(s, i + 1, cls) ELSE i - 1

\* parseInt on a string of decimal digits
RECURSIVE ParseInt(_)
ParseInt(ds) ==
  IF Len(ds) = 0 THEN 0
  ELSE 10 * ParseInt(SubSeq(ds, 1, Len(ds) - 1)) + DigitValue[ds[Len(ds)]]


\* ------------------------------------------------------------- hint parser
VALID_TYPES ==
  <<"Product", "BlogPosting", "Article", "ItemList", "LocalBusiness",
    "Event", "Recipe", "Course", "HowTo", "SoftwareApplication", "WebPage">>

VALID_PROFILES == <<"blog", "store", "local", "recipe", "events", "saas", "auto">>

VALID_FEATURES ==
  <<"about", "mentions", "sameAs", "brand", "authorSameAs", "offers",
    "faq", "video", "howtoSteps", "reviews", "aggregateRating">>

VALID_STRICTNESS == <<"lenient", "normal", "strict">>

VALID_RENDER_MODES == <<"auto", "html", "headless">>

VALID_SIGNALS == <<"byline", "price", "rating", "sku", "map", "steps", "dates">>

\* the verbs of the feature phrases
EnrichVerbs == {"include ", "add ", "enrich "}

SuppressVerbs == {"ignore ", "suppress ", "no "}

\* the characters of the strings: the literals of the source, the hints,
\* URLs and page texts of the requests, and the hints made of two type
\* keywords or of a verb and a feature
Chars ==
  LET parts ==
        {<<VALID_TYPES[p[1]], " ", VALID_TYPES[p[2]]>> :
           p \in (1..Len(VALID_TYPES)) \X (1..Len(VALID_TYPES))}
        \cup {<<v, "", f>> : v \in EnrichVerbs \cup SuppressVerbs,
                             f \in Range(VALID_FEATURES)}
      strings ==
        {c[1] \o c[2] \o c[3] : c \in parts} \cup {
        "Product", "BlogPosting", "Article", "ItemList", "LocalBusiness",
        "Event", "Recipe", "Course", "HowTo", "SoftwareApplication",
        "WebPage", "blog", "store", "local", "recipe", "events", "saas",
        "auto", "about", "mentions", "sameAs", "brand", "authorSameAs",
        "offers", "faq", "video", "howtoSteps", "reviews", "aggregateRating",
        "lenient", "normal", "strict", "html", "headless", "byline", "price",
        "rating", "sku", "map", "steps", "dates", "en", "es", "fr", "de",
        "it", "pt", "sv", "da", "no", "fi", "nl", "pl", "ru", "ja", "ko",
        "zh", "ar", "cap", "max", "limit", "ticket", "register", "venue",
        "location", "ingredients", "servings", "tutorial", "guide",
        "instructions", "post", "article", "news", "breaking", "reuters",
        "cnn", "bbc", "documentation", "api", "technical", "developer",
        "programming", "code", "stars", "restaurant", "cafe", "diner",
        "bistro", "eatery", "dentist", "dental", "orthodontist", "doctor",
        "physician", "medical", "clinic", "hotel", "motel", "inn", "lodge",
        "shop", "retail", "boutique", "gym", "fitness", "workout", "salon",
        "spa", "beauty", "include ", "add ", "enrich ", "ignore ",
        "suppress ", "no ", "cooking time", "prep time", "how to", "top ",
        "best ", "list of", " best", "ap news", "review of", "pros and cons",
        "Existing JSON-LD: ", "Hint: ", "Price + currency detected",
        "Add to cart button found", "SKU/product ID found",
        "NAP (Name, Address, Phone) detected", "Business hours found",
        "Map/location found", "Event date/time detected",
        "Ingredients and cooking steps found",
        "Step-by-step instructions detected", "Blog post structure detected",
        "Article structure with byline/date", "News article indicators found",
        "Technical documentation detected", "Review with rating detected",
        "Numbered list with internal links", "www.", "out of", "review", "by",
        "author", "written by", "Street", "St", "Avenue", "Ave", "Road", "Rd",
        "Boulevard", "Blvd", "step ", "minute", "min", "hour", "hr", "Home",
        "cup", "tablespoon", "teaspoon", "pound", "ounce", "product",
        "blogposting", "itemlist", "localbusiness", "event", "course",
        "howto", "softwareapplication", "webpage", "19.99", "4.5", "12",
        "Jane Doe", "2024-05-01", "2025-03-09", "12 Main Street",
        "555-123-4567", "PT30M", "2 cups flour", "Mix well", "Serve hot",
        "Shop", "Shoes", "example.com", "shop.example", "https://example.com",
        "https://www.shop.example", " ", "en-US", "reply in fr-CA",
        "sv-SE or de", "cs-CZ", "in en please", "",
        "https://example.com/page", "https://example.com/blog/news",
        "https://example.com/og.png", "Welcome", "Buy a ticket at the venue",
        "Ingredients for 4 servings. How to: top 10 tips",
        "Our restaurant blog: breaking news, rating 5 stars",
        "https://www.shop.example/item", "/page", "og.png",
        "Running shoe $19.99, rated 4.5 out of 5, 12 reviews. Home > Shop > Shoes",
        "Written by Jane Doe on 2024-05-01",
        "Visit us at 12 Main Street or call 555-123-4567",
        "2 cups flour\n1. Mix well\nStep 2: Serve hot\nBake 30 minutes", "  ",
        "no offers, cap 3", "Product page, strict", "add offers, no offers",
        "strict: include reviews, ignore reviews, no faq",
        "event article en-US, enrich video",
        "LocalBusiness, add faq, suppress aggregateRating",
        "https://example.com/article/7", "Dental clinic and cafe",
        "Hotel spa and dental care", "Clinic with gym near the inn",
        "Inn with gift shop", "Shop and workout space", "Fitness salon",
        "Beauty", "Developer news, rating 5 stars",
        "API documentation: pros and cons", "Review of the year, 4 stars",
        "My first Post"}
  IN  [s \in strings |-> [i \in 1..Len(s) |-> SubSeq(s, i, i)]]

\* the alternation of /\b(en|es|...|ar)\b/
LanguageCodes ==
  {"en","es","fr","de","it","pt","sv","da","no","fi","nl","pl","ru","ja","ko","zh","ar"}

\* the list element whose occurrence starts leftmost in text
MutFirstIncluded(text, list, lower) ==
  LET Pat(i) == IF lower THEN ToLowerCase(Chars[list[i]]) ELSE Chars[list[i]]
      At(i)  == {k \in 1..Len(text) : MatchAt(text, k, Pat(i))}
      hits   == {i \in 1..Len(list) : At(i) # {}}
  IN  IF hits = {} THEN <<>>
      ELSE <<list[CHOOSE i \in hits : \A j \in hits : Min(At(i)) <= Min(At(j))]>>

\* for (const v of list) { if (text.includes(v)) { field = v; break; } },
\* with v.toLowerCase() in place of v when lower
FirstIncluded(text, list, lower) ==
  LET hits == {i \in 1..Len(list) :
                 Includes(text, IF lower THEN ToLowerCase(Chars[list[i]])
                                         ELSE Chars[list[i]])}
  IN  IF hits = {} THEN <<>> ELSE <<list[Min(hits)]>>

\* the elements v of list, in list order, for which keep[v] holds
RECURSIVE FilterSeq(_, _)
FilterSeq(list, keep) ==
  IF Len(list) = 0 THEN <<>>
  ELSE (IF keep[list[1]] THEN <<list[1]>> ELSE <<>>) \o FilterSeq(Tail(list), keep)

\* text.match(/\b(en|es|...)\b/): the capture of the leftmost match
LangMatch(text) ==
  LET hits == {i \in 1..(Len(text) - 1) :
                 /\ \E c \in LanguageCodes : MatchAt(text, i, Chars[c])
                 /\ WordBoundary(text, i)
                 /\ WordBoundary(text, i + 2)}
  IN  IF hits = {} THEN <<>> ELSE <<SubSeq(text, Min(hits), Min(hits) + 1)>>

\* text.match(/\b([a-z]{2}-[A-Z]{2})\b/): the capture of the leftmost match
BcpMatch(text) ==
  LET hits == {i \in 1..(Len(text) - 4) :
                 /\ text[i] \in LowerLetters /\ text[i + 1] \in LowerLetters
                 /\ text[i + 2] = "-"
                 /\ text[i + 3] \in UpperLetters /\ text[i + 4] \in UpperLetters
                 /\ WordBoundary(text, i)
                 /\ WordBoundary(text, i + 5)}
  IN  IF hits = {} THEN <<>> ELSE <<SubSeq(text, Min(hits), Min(hits) + 4)>>

\* text.match(/cap\s+(\d+)|max\s+(\d+)|limit\s+(\d+)/): the digits captured
\* by the leftmost match
MaxItemsMatch(text) ==
  LET kws == {Chars["cap"], Chars["max"], Chars["limit"]}
      \* where the digits start when keyword kw matches at i, else 0
      DigitsFrom(i, kw) ==
        IF ~MatchAt(text, i, kw) THEN 0
        ELSE LET ws == RunEnd(text, i + Len(kw), Whitespace)
             IN  IF ws >= i + Len(kw) /\ ws + 1 <= Len(text) /\ text[ws + 1] \in Digits
                 THEN ws + 1 ELSE 0
      hits == {i \in 1..Len(text) : \E kw \in kws : DigitsFrom(i, kw) > 0}
  IN  IF hits = {} THEN <<>>
      ELSE LET i  == Min(hits)
               kw == CHOOSE k \in kws : DigitsFrom(i, k) > 0
               d  == DigitsFrom(i, kw)
           IN  <<SubSeq(text, d, RunEnd(text, d, Digits))>>

\* A match result or a scan result is <<>> (null, nothing found) or <<value>>.
\* Field is the object with the one key when a value was found, else {}.
Field(key, found) == IF found = <<>> THEN EmptyObject ELSE (key :> found[1])

parseHint(h) ==
  IF IsBlank(Chars[h]) THEN EmptyObject
  ELSE
    LET text == ToLowerCase(Chars[h])
        lang == LangMatch(text)
        bcp  == BcpMatch(text)
        maxI == MaxItemsMatch(text)
        Phrase(verbs, f) == \E v \in verbs : Includes(text, Chars[v] \o Chars[f])
    IN     Field("preferredType", FirstIncluded(text, VALID_TYPES, TRUE))
        @@ Field("profile", FirstIncluded(text, VALID_PROFILES, FALSE))
        @@ Field("strictness", FirstIncluded(text, VALID_STRICTNESS, FALSE))
        @@ Field("renderMode", FirstIncluded(text, VALID_RENDER_MODES, FALSE))
        @@ Field("language", IF bcp # <<>> THEN bcp ELSE lang)
        @@ (IF maxI = <<>> THEN EmptyObject ELSE ("maxItems" :> ParseInt(maxI[1])))
        @@ ("enrich" :> FilterSeq(VALID_FEATURES,
                          [f \in Range(VALID_FEATURES) |-> Phrase(EnrichVerbs, f)]))
        @@ ("suppress" :> FilterSeq(VALID_FEATURES,
                          [f \in Range(VALID_FEATURES) |-> Phrase(SuppressVerbs, f)]))
        @@ ("prioritySignals" :> FilterSeq(VALID_SIGNALS,
                          [s \in Range(VALID_SIGNALS) |-> Includes(text, Chars[s])]))

\* --------------------------------------------------------------- classifier
\* the words of a regular expression that is an alternation of literals
Words(ws) == {Chars[w] : w \in ws}

\* /lit\d+/ : the literal followed by a digit
TestLiteralDigits(s, lit) ==
  \E i \in 1..Len(s) : MatchAt(s, i, lit) /\ i + Len(lit) <= Len(s) /\ s[i + Len(lit)] \in Digits

\* /\d+lit/ : a digit followed by the literal
TestDigitsLiteral(s, lit) ==
  \E i \in 1..Len(s) : s[i] \in Digits /\ MatchAt(s, i + 1, lit)

\* isProduct that takes only the SKU as the buying affordance
MutIsProduct(c) ==
  /\ c.domSignals.hasPrice
  /\ c.domSignals.hasCurrency
  /\ c.domSignals.hasSku

isProduct(c) ==
  /\ c.domSignals.hasPrice
  /\ c.domSignals.hasCurrency
  /\ (c.domSignals.hasAddToCart \/ c.domSignals.hasSku)

\* isLocalBusiness that does not ask for the NAP
MutIsLocalBusiness(c) == c.domSignals.hasHours \/ c.domSignals.hasMap

isLocalBusiness(c) ==
  /\ c.domSignals.hasNAP
  /\ (c.domSignals.hasHours \/ c.domSignals.hasMap)

isEvent(c) ==
  /\ c.domSignals.hasEvent
  /\ TestAny(ToLowerCase(Chars[c.content]), Words({"ticket", "register", "venue", "location"}))

isRecipe(c) ==
  /\ c.domSignals.hasRecipe
  /\ TestAny(ToLowerCase(Chars[c.content]),
             Words({"ingredients", "cooking time", "prep time", "servings"}))

isHowTo(c) ==
  /\ c.domSignals.hasSteps
  /\ TestAny(ToLowerCase(Chars[c.content]), Words({"how to", "tutorial", "guide", "instructions"}))

isArticle(c) == c.domSignals.hasByline /\ c.domSignals.hasPublishDate

isBlogPost(c) ==
  \/ TestAny(ToLowerCase(Chars[c.url]), Words({"blog", "post", "article"}))
  \/ TestAny(ToLowerCase(Chars[c.content]), Words({"blog", "post"}))

isItemList(c) ==
  /\ c.domSignals.hasItemList
  /\ LET text == ToLowerCase(Chars[c.content])
     IN  \/ TestLiteralDigits(text, Chars["top "])
         \/ TestLiteralDigits(text, Chars["best "])
         \/ Includes(text, Chars["list of"])
         \/ TestDigitsLiteral(text, Chars[" best"])

isNewsArticle(c) ==
  \/ TestAny(ToLowerCase(Chars[c.content]),
             Words({"news", "breaking", "reuters", "ap news", "cnn", "bbc"}))
  \/ Includes(ToLowerCase(Chars[c.url]), Chars["news"])

isTechArticle(c) ==
  TestAny(ToLowerCase(Chars[c.content]),
          Words({"documentation", "api", "technical", "developer", "programming", "code"}))

isReviewArticle(c) ==
  /\ TestAny(ToLowerCase(Chars[c.content]), Words({"review of", "rating", "stars", "pros and cons"}))
  /\ c.domSignals.hasRating

\* detectLocalBusinessSubtype that tests the Dentist group before Restaurant
MutDetectLocalBusinessSubtype(c) ==
  LET text == ToLowerCase(Chars[c.content])
  IN  IF TestAny(text, Words({"dentist", "dental", "orthodontist"}))
        THEN "Dentist"
      ELSE IF TestAny(text, Words({"restaurant", "cafe", "diner", "bistro", "eatery"}))
        THEN "Restaurant"
      ELSE IF TestAny(text, Words({"doctor", "physician", "medical", "clinic"}))
        THEN "MedicalOrganization"
      ELSE IF TestAny(text, Words({"hotel", "motel", "inn", "lodge"}))
        THEN "LodgingBusiness"
      ELSE IF TestAny(text, Words({"store", "shop", "retail", "boutique"}))
        THEN "Store"
      ELSE IF TestAny(text, Words({"gym", "fitness", "workout"}))
        THEN "ExerciseGym"
      ELSE IF TestAny(text, Words({"salon", "spa", "beauty"}))
        THEN "BeautySalon"
      ELSE Undefined

detectLocalBusinessSubtype(c) ==
  LET text == ToLowerCase(Chars[c.content])
  IN  IF TestAny(text, Words({"restaurant", "cafe", "diner", "bistro", "eatery"}))
        THEN "Restaurant"
      ELSE IF TestAny(text, Words({"dentist", "dental", "orthodontist"}))
        THEN "Dentist"
      ELSE IF TestAny(text, Words({"doctor", "physician", "medical", "clinic"}))
        THEN "MedicalOrganization"
      ELSE IF TestAny(text, Words({"hotel", "motel", "inn", "lodge"}))
        THEN "LodgingBusiness"
      ELSE IF TestAny(text, Words({"store", "shop", "retail", "boutique"}))
        THEN "Store"
      ELSE IF TestAny(text, Words({"gym", "fitness", "workout"}))
        THEN "ExerciseGym"
      ELSE IF TestAny(text, Words({"salon", "spa", "beauty"}))
        THEN "BeautySalon"
      ELSE Undefined

\* Math.max and Math.min
Max2(a, b) == IF a >= b THEN a ELSE b

Min2(a, b) == IF a <= b THEN a ELSE b

\* <<x>> when cond, else nothing: if (cond) list.push(x)
PushIf(cond, x) == IF cond THEN <<x>> ELSE <<>>

\* A JSON value of the page's own JSON-LD is [kind |-> "string", value |-> s]
\* or [kind |-> "array", value |-> seq].  existingType is <<s>> when the first
\* entry has a non-empty string @type, else <<>>.
ExistingStringType(c) ==
  IF Len(c.existingJsonLd) > 0
     /\ Has(c.existingJsonLd[1], "@type")
     /\ c.existingJsonLd[1]["@type"].kind = "string"
     /\ c.existingJsonLd[1]["@type"].value # ""
  THEN <<c.existingJsonLd[1]["@type"].value>>
  ELSE <<>>

\* confidence after the check for existing structured data
ExistingConfidence(c) ==
  IF ExistingStringType(c) # <<>> THEN Max2(50, 80) ELSE 50

\* the cascade with Event tested before LocalBusiness
MutCascadeType(c) ==
  IF isProduct(c) THEN "Product"
  ELSE IF isEvent(c) THEN "Event"
  ELSE IF isLocalBusiness(c) THEN "LocalBusiness"
  ELSE IF isRecipe(c) THEN "Recipe"
  ELSE IF isHowTo(c) THEN "HowTo"
  ELSE IF isArticle(c) THEN (IF isBlogPost(c) THEN "BlogPosting" ELSE "Article")
  ELSE IF isItemList(c) THEN "ItemList"
  ELSE "WebPage"

\* the type chosen by the rules-based cascade: the first predicate that holds
CascadeType(c) ==
  IF isProduct(c) THEN "Product"
  ELSE IF isLocalBusiness(c) THEN "LocalBusiness"
  ELSE IF isEvent(c) THEN "Event"
  ELSE IF isRecipe(c) THEN "Recipe"
  ELSE IF isHowTo(c) THEN "HowTo"
  ELSE IF isArticle(c) THEN (IF isBlogPost(c) THEN "BlogPosting" ELSE "Article")
  ELSE IF isItemList(c) THEN "ItemList"
  ELSE "WebPage"

\* the subtype of an Article or BlogPosting
ArticleSubtype(c) ==
  IF isNewsArticle(c) THEN "NewsArticle"
  ELSE IF isTechArticle(c) THEN "TechArticle"
  ELSE IF isReviewArticle(c) THEN "Review"
  ELSE Undefined

\* what the chosen branch of the cascade assigns: type, subtype, confidence
\* and the signals it pushes; confidence is the value before the cascade
Cascade(c, confidence) ==
  LET t == CascadeType(c)
  IN  CASE t = "Product" ->
             [primaryType |-> t, subtype |-> Undefined, confidence |-> 90,
              signals |-> << <<"Price + currency detected">> >>
                 \o PushIf(c.domSignals.hasAddToCart, <<"Add to cart button found">>)
                 \o PushIf(c.domSignals.hasSku, <<"SKU/product ID found">>)]
        [] t = "LocalBusiness" ->
             [primaryType |-> t, subtype |-> detectLocalBusinessSubtype(c),
              confidence |-> 85,
              signals |-> << <<"NAP (Name, Address, Phone) detected">> >>
                 \o PushIf(c.domSignals.hasHours, <<"Business hours found">>)
                 \o PushIf(c.domSignals.hasMap, <<"Map/location found">>)]
        [] t = "Event" ->
             [primaryType |-> t, subtype |-> Undefined, confidence |-> 80,
              signals |-> << <<"Event date/time detected">> >>]
        [] t = "Recipe" ->
             [primaryType |-> t, subtype |-> Undefined, confidence |-> 85,
              signals |-> << <<"Ingredients and cooking steps found">> >>]
        [] t = "HowTo" ->
             [primaryType |-> t, subtype |-> Undefined, confidence |-> 80,
              signals |-> << <<"Step-by-step instructions detected">> >>]
        [] t \in {"BlogPosting", "Article"} ->
             LET sub == ArticleSubtype(c)
             IN  [primaryType |-> t, subtype |-> sub,
                  confidence |-> IF t = "BlogPosting" THEN 80 ELSE 75,
                  signals |->
                       << IF t = "BlogPosting"
                          THEN <<"Blog post structure detected">>
                          ELSE <<"Article structure with byline/date">> >>
                    \o PushIf(sub = "NewsArticle", <<"News article indicators found">>)
                    \o PushIf(sub = "TechArticle", <<"Technical documentation detected">>)
                    \o PushIf(sub = "Review", <<"Review with rating detected">>)]
        [] t = "ItemList" ->
             [primaryType |-> t, subtype |-> Undefined, confidence |-> 80,
              signals |-> << <<"Numbered list with internal links">> >>]
        [] OTHER ->
             [primaryType |-> "WebPage", subtype |-> Undefined,
              confidence |-> confidence, signals |-> <<>>]

\* the hint branch without the confidence floor
MutHintBranch(hintDirective, confidence) ==
  [primaryType |-> hintDirective.preferredType,
   subtype     |-> Undefined,
   confidence  |-> confidence,
   signals     |-> << <<"Hint: ", hintDirective.preferredType>> >>]

\* what the hint branch assigns when hintDirective.preferredType is set
HintBranch(hintDirective, confidence) ==
  [primaryType |-> hintDirective.preferredType,
   subtype     |-> Undefined,
   confidence  |-> Max2(confidence, 70),
   signals     |-> << <<"Hint: ", hintDirective.preferredType>> >>]

\* the features detected from domSignals, in the order they are pushed
DetectFeatures(c) ==
     PushIf(c.domSignals.hasPrice /\ c.domSignals.hasCurrency, "offers")
  \o PushIf(c.domSignals.hasRating, "aggregateRating")
  \o PushIf(c.domSignals.hasReviews, "reviews")
  \o PushIf(c.domSignals.hasBreadcrumbs, "breadcrumbs")
  \o PushIf(c.domSignals.hasFAQ, "faq")
  \o PushIf(c.domSignals.hasVideo, "video")

\* A signal or an explanation is a template string: the sequence of its parts.
classifyPage(c, hintDirective) ==
  LET existingType == ExistingStringType(c)
      confidence0  == ExistingConfidence(c)
      signals0     == IF existingType # <<>>
                      THEN << <<"Existing JSON-LD: ", existingType[1]>> >>
                      ELSE <<>>
      branch ==
        IF Has(hintDirective, "preferredType")
        THEN HintBranch(hintDirective, confidence0)
        ELSE Cascade(c, confidence0)
  IN  [primaryType |-> branch.primaryType,
       subtype     |-> branch.subtype,
       confidence  |-> branch.confidence,
       features    |-> DetectFeatures(c),
       signals     |-> signals0 \o branch.signals]

\* ------------------------------------------------------------ policy engine
\* the characters of a template string
RECURSIVE TemplateChars(_)
TemplateChars(parts) ==
  IF Len(parts) = 0 THEN <<>> ELSE Chars[parts[1]] \o TemplateChars(Tail(parts))

\* Array.prototype.join: the parts of the joined string
RECURSIVE Join(_, _)
Join(list, sep) ==
  IF Len(list) = 0 THEN <<>>
  ELSE IF Len(list) = 1 THEN <<list[1]>>
  ELSE <<list[1], sep>> \o Join(Tail(list), sep)

\* the filter with its test inverted
RECURSIVE MutFilterOut(_, _)
MutFilterOut(list, removed) ==
  IF Len(list) = 0 THEN <<>>
  ELSE (IF list[1] \in Range(removed) THEN <<list[1]>> ELSE <<>>)
       \o MutFilterOut(Tail(list), removed)

\* list.filter(f => !removed.includes(f))
RECURSIVE FilterOut(_, _)
FilterOut(list, removed) ==
  IF Len(list) = 0 THEN <<>>
  ELSE (IF list[1] \in Range(removed) THEN <<>> ELSE <<list[1]>>)
       \o FilterOut(Tail(list), removed)

\* the quality gates without the LocalBusiness gate
MutApplyQualityGates(cls, c) ==
  IF cls.primaryType = "Product" /\ ~c.domSignals.hasPrice THEN
    [downgraded |-> TRUE, newType |-> "WebPage", newSubtype |-> Undefined,
     reason |-> "No price found",
     warnings |-> <<"Product requires visible price">>]
  ELSE
    [downgraded |-> FALSE, newType |-> Undefined, newSubtype |-> Undefined,
     reason |-> Undefined,
     warnings |->
          PushIf(cls.primaryType = "Product" /\ ~c.domSignals.hasCurrency,
                 "Price found but currency not clearly specified")
       \o PushIf(cls.primaryType \in {"Article", "BlogPosting"} /\ ~c.domSignals.hasByline,
                 "Article missing author byline")
       \o PushIf(cls.primaryType \in {"Article", "BlogPosting"}
                   /\ ~c.domSignals.hasPublishDate,
                 "Article missing publication date")
       \o PushIf(~Has(c.meta, "ogImage"),
                 "No featured image found - may affect rich results")]

applyQualityGates(cls, c) ==
  IF cls.primaryType = "Product" /\ ~c.domSignals.hasPrice THEN
    [downgraded |-> TRUE, newType |-> "WebPage", newSubtype |-> Undefined,
     reason |-> "No price found",
     warnings |-> <<"Product requires visible price">>]
  ELSE IF cls.primaryType = "LocalBusiness" /\ ~c.domSignals.hasNAP THEN
    [downgraded |-> TRUE, newType |-> "WebPage", newSubtype |-> Undefined,
     reason |-> "Incomplete NAP (Name, Address, Phone)",
     warnings |-> <<"LocalBusiness requires complete contact information">>]
  ELSE
    [downgraded |-> FALSE, newType |-> Undefined, newSubtype |-> Undefined,
     reason |-> Undefined,
     warnings |->
          PushIf(cls.primaryType = "Product" /\ ~c.domSignals.hasCurrency,
                 "Price found but currency not clearly specified")
       \o PushIf(cls.primaryType \in {"Article", "BlogPosting"} /\ ~c.domSignals.hasByline,
                 "Article missing author byline")
       \o PushIf(cls.primaryType \in {"Article", "BlogPosting"}
                   /\ ~c.domSignals.hasPublishDate,
                 "Article missing publication date")
       \o PushIf(~Has(c.meta, "ogImage"),
                 "No featured image found - may affect rich results")]

\* the strict check in which offers asks for the price only
MutStrictCheck(feature, c) ==
  CASE feature = "offers"          -> c.domSignals.hasPrice
    [] feature = "aggregateRating" -> c.domSignals.hasRating
    [] feature = "reviews"         -> c.domSignals.hasReviews
    [] OTHER                       -> TRUE

\* whether the strict check of a feature passes
StrictCheck(feature, c) ==
  CASE feature = "offers"          -> c.domSignals.hasPrice /\ c.domSignals.hasCurrency
    [] feature = "aggregateRating" -> c.domSignals.hasRating
    [] feature = "reviews"         -> c.domSignals.hasReviews
    [] OTHER                       -> TRUE

StrictWarning(feature) ==
  CASE feature = "offers"          -> "Offers feature requires visible price and currency"
    [] feature = "aggregateRating" -> "AggregateRating feature requires visible rating"
    [] feature = "reviews"         -> "Reviews feature requires visible review content"

\* applyStrictValidation returns the validated features and pushes its
\* warnings on the caller's list: both are returned here
RECURSIVE applyStrictValidation(_, _)
applyStrictValidation(features, c) ==
  IF Len(features) = 0 THEN [features |-> <<>>, warnings |-> <<>>]
  ELSE LET rest == applyStrictValidation(Tail(features), c)
           f    == features[1]
       IN  IF StrictCheck(f, c)
           THEN [features |-> <<f>> \o rest.features, warnings |-> rest.warnings]
           ELSE [features |-> rest.features,
                 warnings |-> <<StrictWarning(f)>> \o rest.warnings]

detectConflictingTypes(signals) ==
  IF /\ \E i \in 1..Len(signals) : Includes(TemplateChars(signals[i]), Chars["Product"])
     /\ \E i \in 1..Len(signals) : Includes(TemplateChars(signals[i]), Chars["Article"])
  THEN <<"Product">>
  ELSE <<>>

\* the suppress step that leaves the list as it is
MutSuppressed(features, hintDirective) == features

\* features after the suppress step: filtered when the directive has a
\* suppress list, else the classification's own array
Suppressed(features, hintDirective) ==
  IF Has(hintDirective, "suppress")
  THEN FilterOut(features, hintDirective.suppress)
  ELSE features

\* the enrich loop: each feature of enrich that is not yet in the list is
\* pushed, with its explanation
RECURSIVE Enriched(_, _)
Enriched(features, enrich) ==
  IF Len(enrich) = 0 THEN [features |-> features, explanations |-> <<>>]
  ELSE IF enrich[1] \in Range(features) THEN Enriched(features, Tail(enrich))
  ELSE LET rest == Enriched(Append(features, enrich[1]), Tail(enrich))
       IN  [features |-> rest.features,
            explanations |-> << <<"Added feature: ", enrich[1]>> >> \o rest.explanations]

\* the hint directives applied in the other order (enrich, then suppress)
MutHintFeatures(features, hintDirective) ==
  LET enriched == IF Has(hintDirective, "enrich")
                  THEN Enriched(features, hintDirective.enrich)
                  ELSE [features |-> features, explanations |-> <<>>]
  IN  [features |-> Suppressed(enriched.features, hintDirective),
       explanations |-> enriched.explanations]

\* the feature list after the hint directives (suppress, then enrich)
HintFeatures(features, hintDirective) ==
  LET suppressed == Suppressed(features, hintDirective)
  IN  IF Has(hintDirective, "enrich")
      THEN Enriched(suppressed, hintDirective.enrich)
      ELSE [features |-> suppressed, explanations |-> <<>>]

\* the confidence cap applied whether or not a gate downgraded
MutPolicyConfidence(cls, quality) == Min2(cls.confidence, 60)

\* confidence after the quality gates
PolicyConfidence(cls, quality) ==
  IF quality.downgraded THEN Min2(cls.confidence, 60) ELSE cls.confidence

\* applyPolicy that puts the classification signals first in the explanations
MutApplyPolicy(cls, c, hintDirective) ==
  LET quality == applyQualityGates(cls, c)
      hinted  == HintFeatures(cls.features, hintDirective)
      strict  == IF Has(hintDirective, "strictness") /\ hintDirective.strictness = "strict"
                 THEN applyStrictValidation(hinted.features, c)
                 ELSE [features |-> hinted.features, warnings |-> <<>>]
      conflictingTypes == IF Len(cls.signals) > 1
                          THEN detectConflictingTypes(cls.signals) ELSE <<>>
  IN  [primaryType |-> IF quality.downgraded THEN quality.newType ELSE cls.primaryType,
       subtype     |-> IF quality.downgraded THEN quality.newSubtype ELSE cls.subtype,
       features    |-> strict.features,
       confidence  |-> PolicyConfidence(cls, quality),
       explanations |->
            cls.signals
         \o PushIf(quality.downgraded,
                   <<"Downgraded from ", cls.primaryType, " to ", quality.newType,
                     ": ", quality.reason>>)
         \o PushIf(Has(hintDirective, "suppress"),
                   <<"Suppressed features: ">>
                   \o (IF Has(hintDirective, "suppress")
                       THEN Join(hintDirective.suppress, ", ") ELSE <<>>))
         \o hinted.explanations
         \o PushIf(Len(conflictingTypes) > 0,
                   <<"Conflicting types moved to mentions: ">>
                   \o Join(conflictingTypes, ", ")),
       warnings    |-> (IF quality.downgraded THEN quality.warnings ELSE <<>>)
                       \o strict.warnings,
       mentions    |-> conflictingTypes]

\* applyPolicy(classification, content, hintDirective): the PolicyResult
applyPolicy(cls, c, hintDirective) ==
  LET quality == applyQualityGates(cls, c)
      hinted  == HintFeatures(cls.features, hintDirective)
      strict  == IF Has(hintDirective, "strictness") /\ hintDirective.strictness = "strict"
                 THEN applyStrictValidation(hinted.features, c)
                 ELSE [features |-> hinted.features, warnings |-> <<>>]
      conflictingTypes == IF Len(cls.signals) > 1
                          THEN detectConflictingTypes(cls.signals) ELSE <<>>
  IN  [primaryType |-> IF quality.downgraded THEN quality.newType ELSE cls.primaryType,
       subtype     |-> IF quality.downgraded THEN quality.newSubtype ELSE cls.subtype,
       features    |-> strict.features,
       confidence  |-> PolicyConfidence(cls, quality),
       explanations |->
            PushIf(quality.downgraded,
                   <<"Downgraded from ", cls.primaryType, " to ", quality.newType,
                     ": ", quality.reason>>)
         \o PushIf(Has(hintDirective, "suppress"),
                   <<"Suppressed features: ">>
                   \o (IF Has(hintDirective, "suppress")
                       THEN Join(hintDirective.suppress, ", ") ELSE <<>>))
         \o hinted.explanations
         \o PushIf(Len(conflictingTypes) > 0,
                   <<"Conflicting types moved to mentions: ">>
                   \o Join(conflictingTypes, ", "))
         \o cls.signals,
       warnings    |-> (IF quality.downgraded THEN quality.warnings ELSE <<>>)
                       \o strict.warnings,
       mentions    |-> conflictingTypes]

\* features.push in the enrich loop writes into classification.features
\* itself when no suppress list replaced the array by a filtered copy
FeaturesAfterPolicy(cls, hintDirective) ==
  IF Has(hintDirective, "enrich") /\ ~Has(hintDirective, "suppress")
  THEN Enriched(cls.features, hintDirective.enrich).features
  ELSE cls.features

\* -------------------------------------------------------------- JSON values
\* The values of a JSON-LD document carry their JavaScript type: strings,
\* numbers, booleans, arrays (sequences), objects (functions from keys to
\* values) and undefined (what reading a missing key gives).
JsonString(s) == [kind |-> "string", value |-> s]

JsonArray(a) == [kind |-> "array", value |-> a]

JsonObject(o) == [kind |-> "object", value |-> o]

JsonNumber(n) == [kind |-> "number", value |-> n]

JsonBoolean(b) == [kind |-> "boolean", value |-> b]

JsUndefined == [kind |-> "undefined", value |-> Undefined]

JsNull == [kind |-> "null", value |-> "null"]

\* entity[key]
Get(entity, key) ==
  IF entity.kind = "object" /\ key \in DOMAIN entity.value
  THEN entity.value[key] ELSE JsUndefined

\* the value is truthy: what `!v`, `a && b` and `a || b` test
Truthy(v) ==
  CASE v.kind \in {"undefined", "null"} -> FALSE
    [] v.kind = "boolean"   -> v.value
    [] v.kind = "string"    -> v.value # ""
    [] v.kind = "number"    -> v.value # 0
    [] OTHER                -> TRUE

\* a string-typed optional field (undefined or a string) is truthy
TruthyString(s) == s # Undefined /\ s # ""

\* the string whose characters are cs
Str(cs) == CHOOSE s \in DOMAIN Chars : Chars[s] = cs

\* ---------------------------------------------------- more string helpers
Letters == UpperLetters \cup LowerLetters

\* the first position at or after i whose character is not in cls
\* (Len(s) + 1 when there is none)
RECURSIVE SkipWhile(_, _, _)
SkipWhile(s, i, cls) ==
  IF i <= Len(s) /\ s[i] \in cls THEN SkipWhile(s, i + 1, cls) ELSE i

\* the first position at or after i whose character is in cls
\* (Len(s) + 1 when there is none)
RECURSIVE SkipUntil(_, _, _)
SkipUntil(s, i, cls) ==
  IF i <= Len(s) /\ s[i] \notin cls THEN SkipUntil(s, i + 1, cls) ELSE i

\* pat occurs in s at position i, letters compared without case (the i flag)
MatchAtI(s, i, pat) ==
  LET lower(ch) == IF ch \in UpperLetters THEN LowerOf[ch] ELSE ch
  IN  /\ i >= 1
      /\ i + Len(pat) - 1 <= Len(s)
      /\ \A k \in 1..Len(pat) : lower(s[i + k - 1]) = lower(pat[k])

\* String.prototype.trim
Trim(s) ==
  LET first == SkipWhile(s, 1, Whitespace)
      Last[i \in 0..Len(s)] ==
        IF i = 0 \/ s[i] \notin Whitespace THEN i ELSE Last[i - 1]
  IN  IF first > Len(s) THEN <<>> ELSE SubSeq(s, first, Last[Len(s)])

\* String.prototype.split('\n')
RECURSIVE Lines(_)
Lines(s) ==
  LET nl == SkipUntil(s, 1, {"\n"})
  IN  IF nl > Len(s) THEN <<s>>
      ELSE <<SubSeq(s, 1, nl - 1)>> \o Lines(SubSeq(s, nl + 1, Len(s)))

\* the decimal digits of a natural number (template literal `${time}`)
RECURSIVE NumberChars(_)
NumberChars(n) ==
  LET digit == CHOOSE d \in Digits : DigitValue[d] = n % 10
  IN  IF n < 10 THEN <<digit>> ELSE Append(NumberChars(n \div 10), digit)

\* the result of String.prototype.match without the g flag: <<>> for null,
\* else <<m>> for the leftmost position at which At(i) gives a match
FirstMatch(s, At(_)) ==
  LET starts == {i \in 1..Len(s) : At(i) # <<>>}
  IN  IF starts = {} THEN <<>> ELSE At(Min(starts))

\* ------------------------------------------------------------------- URLs
\* new URL(s) for the URL strings of the requests (http(s) URLs with a host,
\* and references without a scheme, for which the constructor throws):
\* <<>> when it throws, else the protocol, host and hostname
ParseUrl(s) ==
  LET SchemeChars == Letters \cup Digits \cup {"+", "-", "."}
      colon == SkipWhile(s, 1, SchemeChars)
      hostEnd == SkipUntil(s, colon + 3, {"/", "?", "#"})
      host == ToLowerCase(SubSeq(s, colon + 3, hostEnd - 1))
      port == SkipUntil(host, 1, {":"})
  IN  IF /\ colon > 1
         /\ s[1] \in Letters
         /\ MatchAt(s, colon, <<":", "/", "/">>)
         /\ hostEnd > colon + 3
      THEN << [protocol |-> Append(ToLowerCase(SubSeq(s, 1, colon - 1)), ":"),
               host     |-> host,
               hostname |-> SubSeq(host, 1, port - 1)] >>
      ELSE <<>>

\* `${baseUrl.protocol}//${baseUrl.host}` of new URL(canonicalUrl || url):
\* <<>> when the constructor throws
SiteUrl(c) ==
  LET base == ParseUrl(Chars[IF TruthyString(c.canonicalUrl)
                             THEN c.canonicalUrl ELSE c.url])
  IN  IF base = <<>> THEN <<>>
      ELSE <<Str(base[1].protocol \o <<"/", "/">> \o base[1].host)>>

\* ------------------------------------------------------------- extractors
\* new URL(content.url).hostname.replace(/^www\./, "")
extractOrganizationName(c) ==
  LET hostname == ParseUrl(Chars[c.url])[1].hostname
  IN  Str(IF MatchAt(hostname, 1, Chars["www."])
          THEN SubSeq(hostname, 5, Len(hostname)) ELSE hostname)

\* content.meta.ogTitle || content.title || extractOrganizationName(content)
extractSiteName(c) ==
  IF Has(c.meta, "ogTitle") /\ TruthyString(c.meta.ogTitle) THEN c.meta.ogTitle
  ELSE IF TruthyString(c.title) THEN c.title
  ELSE extractOrganizationName(c)

extractCurrency(c) ==
  LET text == Chars[c.content]
  IN  IF Includes(text, <<"$">>) THEN "USD"
      ELSE IF Includes(text, <<"€">>) THEN "EUR"
      ELSE IF Includes(text, <<"£">>) THEN "GBP"
      ELSE "USD"

\* \d+(?:\.\d{2})? at position i: the position after it (i when no digit)
DecimalEnd(s, i) ==
  LET d == SkipWhile(s, i, Digits)
  IN  IF d > i /\ MatchAt(s, d, <<".">>) /\ d + 2 <= Len(s)
         /\ s[d + 1] \in Digits /\ s[d + 2] \in Digits
      THEN d + 3 ELSE d

extractPrice(c) ==
  LET \* /[\$€£](\d+(?:\.\d{2})?)/ at position i: group 1
      PriceAt(s, i) ==
        IF s[i] \in {"$", "€", "£"} /\ DecimalEnd(s, i + 1) > i + 1
        THEN <<SubSeq(s, i + 1, DecimalEnd(s, i + 1) - 1)>> ELSE <<>>
      priceMatch == FirstMatch(Chars[c.content], LAMBDA i : PriceAt(Chars[c.content], i))
  IN  IF priceMatch # <<>> THEN Str(priceMatch[1]) ELSE "0"

extractRating(c) ==
  LET \* /(\d+(?:\.\d+)?)\s*(?:out of|\/)\s*(\d+)/ at position i: group 1
      RatingAt(s, i) ==
        LET d == SkipWhile(s, i, Digits)
            f == IF d > i /\ MatchAt(s, d, <<".">>) /\ SkipWhile(s, d + 1, Digits) > d + 1
                 THEN SkipWhile(s, d + 1, Digits) ELSE d
            w == SkipWhile(s, f, Whitespace)
            sep == IF MatchAt(s, w, Chars["out of"]) THEN w + 6
                   ELSE IF MatchAt(s, w, <<"/">>) THEN w + 1 ELSE 0
            n == SkipWhile(s, sep, Whitespace)
        IN  IF d > i /\ sep > 0 /\ n <= Len(s) /\ s[n] \in Digits
            THEN <<SubSeq(s, i, f - 1)>> ELSE <<>>
      ratingMatch == FirstMatch(Chars[c.content], LAMBDA i : RatingAt(Chars[c.content], i))
  IN  IF ratingMatch # <<>> THEN Str(ratingMatch[1]) ELSE "5"

extractRatingCount(c) ==
  LET \* /(\d+)\s*reviews?/i at position i: group 1
      RatingCountAt(s, i) ==
        LET d == SkipWhile(s, i, Digits)
        IN  IF d > i /\ MatchAtI(s, SkipWhile(s, d, Whitespace), Chars["review"])
            THEN <<SubSeq(s, i, d - 1)>> ELSE <<>>
      countMatch == FirstMatch(Chars[c.content], LAMBDA i : RatingCountAt(Chars[c.content], i))
  IN  IF countMatch # <<>> THEN Str(countMatch[1]) ELSE "1"

\* the position after the first of the alternatives (in their order) that
\* occurs in s at position i without regard to case, 0 when none does
RECURSIVE AlternationEnd(_, _, _)
AlternationEnd(s, i, alternatives) ==
  IF Len(alternatives) = 0 THEN 0
  ELSE IF MatchAtI(s, i, Chars[alternatives[1]]) THEN i + Len(Chars[alternatives[1]])
  ELSE AlternationEnd(s, i, Tail(alternatives))

extractAuthor(c) ==
  LET \* /(?:by|author|written by)\s+([A-Z][a-z]+ [A-Z][a-z]+)/i at position i:
      \* group 1 (with the i flag both classes match letters of either case)
      AuthorAt(s, i) ==
        LET a == AlternationEnd(s, i, <<"by", "author", "written by">>)
            first == SkipWhile(s, a, Whitespace)
            firstEnd == SkipWhile(s, first, Letters)
            lastEnd == SkipWhile(s, firstEnd + 1, Letters)
        IN  IF /\ a > 0
               /\ first > a
               /\ firstEnd >= first + 2
               /\ MatchAt(s, firstEnd, <<" ">>)
               /\ lastEnd >= firstEnd + 3
            THEN <<SubSeq(s, first, lastEnd - 1)>> ELSE <<>>
      authorMatch == FirstMatch(Chars[c.content], LAMBDA i : AuthorAt(Chars[c.content], i))
  IN  IF authorMatch # <<>> THEN Str(authorMatch[1]) ELSE "Anonymous"

\* /(\d{4}-\d{2}-\d{2})/ at position i: group 1
DateAt(s, i) ==
  IF /\ i + 9 <= Len(s)
     /\ \A k \in {0, 1, 2, 3, 5, 6, 8, 9} : s[i + k] \in Digits
     /\ s[i + 4] = "-"
     /\ s[i + 7] = "-"
  THEN <<SubSeq(s, i, i + 9)>> ELSE <<>>

\* dateMatch ? dateMatch[1] : new Date().toISOString().split('T')[0], where
\* today is the date part of the clock's ISO string at the call
extractPublishDate(c, today) ==
  LET dateMatch == FirstMatch(Chars[c.content], LAMBDA i : DateAt(Chars[c.content], i))
  IN  IF dateMatch # <<>> THEN Str(dateMatch[1]) ELSE today

extractAddress(c) ==
  LET StreetWords == <<"Street", "St", "Avenue", "Ave", "Road", "Rd", "Boulevard", "Blvd">>
      \* /(\d+\s+[A-Za-z\s]+(?:Street|St|Avenue|Ave|Road|Rd|Boulevard|Blvd))/i at
      \* position i: group 1.  The class [A-Za-z\s]+ is greedy, so the street
      \* word taken is the last one that starts inside the run of letters and
      \* white space after the number.
      AddressAt(s, i) ==
        LET d == SkipWhile(s, i, Digits)
            runEnd == SkipWhile(s, d, Letters \cup Whitespace)
            wordStarts == {p \in (d + 2)..(runEnd - 1) : AlternationEnd(s, p, StreetWords) > 0}
            p == CHOOSE q \in wordStarts : \A r \in wordStarts : r <= q
        IN  IF /\ d > i
               /\ d <= Len(s)
               /\ s[d] \in Whitespace
               /\ wordStarts # {}
            THEN <<SubSeq(s, i, AlternationEnd(s, p, StreetWords) - 1)>> ELSE <<>>
      addressMatch == FirstMatch(Chars[c.content], LAMBDA i : AddressAt(Chars[c.content], i))
  IN  IF addressMatch = <<>> THEN <<>>
      ELSE << JsonObject(("@type" :> JsonString("PostalAddress"))
                      @@ ("streetAddress" :> JsonString(Str(addressMatch[1])))) >>

\* the position after n digits at position i, 0 when there are fewer
DigitsEnd(s, i, n) ==
  IF i >= 1 /\ i + n - 1 <= Len(s) /\ \A k \in 0..(n - 1) : s[i + k] \in Digits
  THEN i + n ELSE 0

extractPhone(c) ==
  LET \* the position after [-.\s]? at position i
      PhoneSeparatorEnd(s, i) ==
        IF i >= 1 /\ i <= Len(s) /\ s[i] \in ({"-", "."} \cup Whitespace) THEN i + 1 ELSE i
      \* /(\d{3}[-.\s]?\d{3}[-.\s]?\d{4})/ at position i: group 1
      PhoneAt(s, i) ==
        LET a == DigitsEnd(s, i, 3)
            b == IF a = 0 THEN 0 ELSE DigitsEnd(s, PhoneSeparatorEnd(s, a), 3)
            e == IF b = 0 THEN 0 ELSE DigitsEnd(s, PhoneSeparatorEnd(s, b), 4)
        IN  IF e > 0 THEN <<SubSeq(s, i, e - 1)>> ELSE <<>>
      phoneMatch == FirstMatch(Chars[c.content], LAMBDA i : PhoneAt(Chars[c.content], i))
  IN  IF phoneMatch = <<>> THEN <<>> ELSE <<Str(phoneMatch[1])>>

extractOpeningHours(c) == JsonArray(<<JsonString("Mo-Fr 09:00-17:00")>>)

extractEventDate(c, today) ==
  LET dateMatch == FirstMatch(Chars[c.content], LAMBDA i : DateAt(Chars[c.content], i))
  IN  IF dateMatch # <<>> THEN Str(dateMatch[1]) ELSE today

extractEventLocation(c) ==
  JsonObject(("@type" :> JsonString("Place")) @@ ("name" :> JsonString("Event Location")))

\* the position after /^\s*\d+\./ in line, 0 when it does not match
NumberDotEnd(line) ==
  LET d == SkipWhile(line, 1, Whitespace)
      e == SkipWhile(line, d, Digits)
  IN  IF e > d /\ MatchAt(line, e, <<".">>) THEN e + 1 ELSE 0

\* the position after /^step \d+/i in line, 0 when it does not match
StepNumberEnd(line) ==
  LET e == SkipWhile(line, 6, Digits)
  IN  IF MatchAtI(line, 1, Chars["step "]) /\ e > 6 THEN e ELSE 0

\* line.replace(/^\s*\d+\.\s*/, "").trim() of a line the pattern matches
StripNumber(line) ==
  Trim(SubSeq(line, SkipWhile(line, NumberDotEnd(line), Whitespace), Len(line)))

\* line.replace(/^\s*(?:\d+\.|step \d+:?)\s*/i, "").trim()
StripStep(line) ==
  LET w == SkipWhile(line, 1, Whitespace)
      rest == SubSeq(line, w, Len(line))
      e == IF NumberDotEnd(line) > 0 THEN NumberDotEnd(line)
           ELSE IF StepNumberEnd(rest) > 0
             THEN LET n == w - 1 + StepNumberEnd(rest)
                  IN  IF MatchAt(line, n, <<":">>) THEN n + 1 ELSE n
           ELSE 0
  IN  IF e = 0 THEN Trim(line)
      ELSE Trim(SubSeq(line, SkipWhile(line, e, Whitespace), Len(line)))

\* the lines that pass Keep, in order, each mapped by Item
MapLines(lines, Keep(_), Item(_)) ==
  LET kept == SelectSeq(lines, Keep)
  IN  [i \in 1..Len(kept) |-> Item(kept[i])]

HowToStep(text) ==
  JsonObject(("@type" :> JsonString("HowToStep")) @@ ("text" :> JsonString(text)))

ListItem(position, name) ==
  JsonObject(("@type" :> JsonString("ListItem")) @@ ("position" :> JsonNumber(position))
             @@ ("name" :> JsonString(name)))

extractIngredients(c) ==
  LET \* /^\s*\d+/.test(line)
      StartsWithNumber(line) ==
        LET d == SkipWhile(line, 1, Whitespace)
        IN  d <= Len(line) /\ line[d] \in Digits
      ingredients ==
        MapLines(Lines(Chars[c.content]),
                 LAMBDA line : /\ StartsWithNumber(line)
                               /\ TestAny(line, Words({"cup", "tablespoon", "teaspoon",
                                                       "pound", "ounce"})),
                 LAMBDA line : JsonString(Str(Trim(line))))
  IN  JsonArray(IF Len(ingredients) > 0 THEN ingredients
                ELSE <<JsonString("Ingredient 1"), JsonString("Ingredient 2")>>)

extractRecipeInstructions(c) ==
  LET instructions ==
        MapLines(Lines(Chars[c.content]),
                 LAMBDA line : NumberDotEnd(line) > 0,
                 LAMBDA line : HowToStep(Str(StripNumber(line))))
  IN  JsonArray(IF Len(instructions) > 0 THEN instructions
                ELSE <<HowToStep("Follow the recipe instructions")>>)

\* `PT${time}H` when the match includes 'hour' or 'hr', else `PT${time}M`
extractCookTime(c) ==
  LET TimeUnits == <<"minute", "min", "hour", "hr">>
      \* /(\d+)\s*(?:minutes?|mins?|hours?|hrs?)/i at position i: the digits of
      \* group 1 and the alternative that matched
      CookTimeAt(s, i) ==
        LET d == SkipWhile(s, i, Digits)
            u == SkipWhile(s, d, Whitespace)
            unit == CHOOSE k \in 1..Len(TimeUnits) :
                      /\ MatchAtI(s, u, Chars[TimeUnits[k]])
                      /\ \A j \in 1..(k - 1) : ~MatchAtI(s, u, Chars[TimeUnits[j]])
        IN  IF d > i /\ AlternationEnd(s, u, TimeUnits) > 0
            THEN <<[digits |-> SubSeq(s, i, d - 1), unit |-> TimeUnits[unit]]>> ELSE <<>>
      timeMatch == FirstMatch(Chars[c.content], LAMBDA i : CookTimeAt(Chars[c.content], i))
      time == NumberChars(ParseInt(timeMatch[1].digits))
  IN  IF timeMatch = <<>> THEN <<>>
      ELSE IF timeMatch[1].unit \in {"hour", "hr"}
        THEN <<Str(<<"P", "T">> \o time \o <<"H">>)>>
      ELSE <<Str(<<"P", "T">> \o time \o <<"M">>)>>

extractHowToSteps(c) ==
  LET steps ==
        MapLines(Lines(Chars[c.content]),
                 LAMBDA line : NumberDotEnd(line) > 0 \/ StepNumberEnd(line) > 0,
                 LAMBDA line : HowToStep(Str(StripStep(line))))
  IN  JsonArray(IF Len(steps) > 0 THEN steps
                ELSE <<HowToStep("Follow the instructions")>>)

\* items.slice(0, 10) of the numbered lines longer than 10 characters
extractListItems(c) ==
  LET lines == SelectSeq(Lines(Chars[c.content]),
                         LAMBDA line : NumberDotEnd(line) > 0 /\ Len(line) > 10)
      items == [i \in 1..Len(lines) |-> ListItem(i, Str(StripNumber(lines[i])))]
  IN  JsonArray(IF Len(items) > 0 THEN SubSeq(items, 1, Min2(Len(items), 10))
                ELSE <<ListItem(1, "List item 1")>>)

\* ---------------------------------------------------------------- assembler
\* the object with the one key when cond holds, else no key
Opt(cond, key, value) == IF cond THEN (key :> value) ELSE EmptyObject

\* { "@id": id }
IdPointer(id) == JsonObject(("@id" :> JsonString(id)))

\* assembleBreadcrumbs(content): <<>> for null
assembleBreadcrumbs(c) ==
  LET \* \s*([^>]+) at position g: the bounds of the group, <<>> when it fails.
      \* The group runs to the next ">" or the end; when only white space is left
      \* before that, \s* gives its last character back to the group.
      CrumbGroup(s, g) ==
        LET w == SkipWhile(s, g, Whitespace)
            n == SkipUntil(s, g, {">"})
        IN  IF n = g THEN <<>>
            ELSE IF w < n THEN <<[from |-> w, to |-> n - 1]>>
            ELSE <<[from |-> n - 1, to |-> n - 1]>>
      \* /Home\s*>\s*([^>]+)(?:\s*>\s*([^>]+))?/i at position i: the groups that
      \* took part in the match
      BreadcrumbAt(s, i) ==
        LET a == SkipWhile(s, i + 4, Whitespace)
            g1 == CrumbGroup(s, a + 1)
            g2 == IF MatchAt(s, g1[1].to + 1, <<">">>)
                  THEN CrumbGroup(s, g1[1].to + 2) ELSE <<>>
        IN  IF MatchAtI(s, i, Chars["Home"]) /\ MatchAt(s, a, <<">">>) /\ g1 # <<>>
            THEN << <<SubSeq(s, g1[1].from, g1[1].to)>>
                    \o (IF g2 # <<>> THEN <<SubSeq(s, g2[1].from, g2[1].to)>> ELSE <<>>) >>
            ELSE <<>>
      breadcrumbMatch ==
        FirstMatch(Chars[c.content], LAMBDA i : BreadcrumbAt(Chars[c.content], i))
      groups == breadcrumbMatch[1]
      items == <<"Home">> \o [k \in 1..Len(groups) |-> Str(Trim(groups[k]))]
  IN  IF breadcrumbMatch = <<>> THEN <<>>
      ELSE << JsonObject(
                   ("@type" :> JsonString("BreadcrumbList"))
                @@ ("@id" :> JsonString(c.url \o "#breadcrumbs"))
                @@ ("itemListElement" :>
                      JsonArray([k \in 1..Len(items) |-> ListItem(k, items[k])]))) >>

\* content.meta.ogImage is truthy
HasOgImage(c) == Has(c.meta, "ogImage") /\ TruthyString(c.meta.ogImage)

assembleProductProperties(p, c) ==
     Opt("offers" \in Range(p.features), "offers",
         JsonObject(   ("@type" :> JsonString("Offer"))
                    @@ ("availability" :> JsonString("https://schema.org/InStock"))
                    @@ ("priceCurrency" :> JsonString(extractCurrency(c)))
                    @@ ("price" :> JsonString(extractPrice(c)))))
  @@ Opt("aggregateRating" \in Range(p.features), "aggregateRating",
         JsonObject(   ("@type" :> JsonString("AggregateRating"))
                    @@ ("ratingValue" :> JsonString(extractRating(c)))
                    @@ ("ratingCount" :> JsonString(extractRatingCount(c)))))
  @@ Opt(HasOgImage(c), "image", JsonString(c.meta.ogImage))

assembleArticleProperties(p, c, siteUrl, today) ==
     ("isPartOf" :> IdPointer(siteUrl \o "/#website"))
  @@ Opt(c.domSignals.hasByline, "author",
         JsonObject(("@type" :> JsonString("Person"))
                    @@ ("name" :> JsonString(extractAuthor(c)))))
  @@ Opt(c.domSignals.hasPublishDate, "datePublished",
         JsonString(extractPublishDate(c, today)))
  @@ Opt(HasOgImage(c), "image", JsonString(c.meta.ogImage))
  @@ ("publisher" :> IdPointer(siteUrl \o "/#organization"))

assembleLocalBusinessProperties(p, c) ==
     (IF extractAddress(c) # <<>> THEN ("address" :> extractAddress(c)[1]) ELSE EmptyObject)
  @@ (IF extractPhone(c) # <<>> THEN ("telephone" :> JsonString(extractPhone(c)[1]))
      ELSE EmptyObject)
  @@ Opt(c.domSignals.hasHours, "openingHours", extractOpeningHours(c))

\* the Event properties without the location
MutAssembleEventProperties(p, c, today) ==
  ("startDate" :> JsonString(extractEventDate(c, today)))

assembleEventProperties(p, c, today) ==
     ("startDate" :> JsonString(extractEventDate(c, today)))
  @@ ("location" :> extractEventLocation(c))

assembleRecipeProperties(p, c) ==
     ("recipeIngredient" :> extractIngredients(c))
  @@ ("recipeInstructions" :> extractRecipeInstructions(c))
  @@ (IF extractCookTime(c) # <<>> THEN ("cookTime" :> JsonString(extractCookTime(c)[1]))
      ELSE EmptyObject)

assembleHowToProperties(p, c) == ("step" :> extractHowToSteps(c))

assembleItemListProperties(p, c) ==
     ("itemListElement" :> extractListItems(c))
  @@ ("numberOfItems" :> JsonNumber(Len(extractListItems(c).value)))

\* the default properties without the isPartOf pointer
MutAssembleWebPageProperties(p, c, siteUrl) ==
  Opt(HasOgImage(c), "image", JsonString(c.meta.ogImage))

assembleWebPageProperties(p, c, siteUrl) ==
     ("isPartOf" :> IdPointer(siteUrl \o "/#website"))
  @@ Opt(HasOgImage(c), "image", JsonString(c.meta.ogImage))

\* the @type of the primary entity that ignores the subtype
MutPrimaryEntityType(p) == p.primaryType

\* policyResult.subtype || policyResult.primaryType
PrimaryEntityType(p) == IF TruthyString(p.subtype) THEN p.subtype ELSE p.primaryType

\* the fields of the primary entity; siteUrl is that of new URL(canonicalUrl || url)
assemblePrimaryEntity(p, c, today) ==
  LET siteUrl == SiteUrl(c)[1]
  IN    ("@type" :> JsonString(PrimaryEntityType(p)))
     @@ ("@id" :> JsonString(c.url \o "#" \o Str(ToLowerCase(Chars[p.primaryType]))))
     @@ ("name" :> JsonString(c.title))
     @@ ("url" :> JsonString(c.url))
     @@ Opt(TruthyString(c.description), "description", JsonString(c.description))
     @@ (CASE p.primaryType = "Product" -> assembleProductProperties(p, c)
           [] p.primaryType \in {"Article", "BlogPosting"} ->
                assembleArticleProperties(p, c, siteUrl, today)
           [] p.primaryType = "LocalBusiness" -> assembleLocalBusinessProperties(p, c)
           [] p.primaryType = "Event" -> assembleEventProperties(p, c, today)
           [] p.primaryType = "Recipe" -> assembleRecipeProperties(p, c)
           [] p.primaryType = "HowTo" -> assembleHowToProperties(p, c)
           [] p.primaryType = "ItemList" -> assembleItemListProperties(p, c)
           [] OTHER -> assembleWebPageProperties(p, c, siteUrl))

\* new URL throws in assembleSchema: on canonicalUrl || url, or on url in
\* extractOrganizationName
AssembleThrows(c) == SiteUrl(c) = <<>> \/ ParseUrl(Chars[c.url]) = <<>>

\* assembleSchema(policyResult, content) when it returns; today is the date
\* new Date() gives during the call
assembleSchema(p, c, today) ==
  LET siteUrl == SiteUrl(c)[1]
      organization ==
        JsonObject(   ("@type" :> JsonString("Organization"))
                   @@ ("@id" :> JsonString(siteUrl \o "/#organization"))
                   @@ ("name" :> JsonString(extractOrganizationName(c)))
                   @@ ("url" :> JsonString(siteUrl)))
      website ==
        JsonObject(   ("@type" :> JsonString("WebSite"))
                   @@ ("@id" :> JsonString(siteUrl \o "/#website"))
                   @@ ("url" :> JsonString(siteUrl))
                   @@ ("name" :> JsonString(extractSiteName(c)))
                   @@ ("publisher" :> IdPointer(siteUrl \o "/#organization")))
      breadcrumbs ==
        IF "breadcrumbs" \in Range(p.features) THEN assembleBreadcrumbs(c) ELSE <<>>
      mentions ==
        Opt(Len(p.mentions) > 0, "mentions",
            JsonArray([k \in 1..Len(p.mentions) |->
                         JsonObject(("@type" :> JsonString(p.mentions[k]))
                                    @@ ("name" :> JsonString(c.title)))]))
      primaryEntity == JsonObject(mentions @@ assemblePrimaryEntity(p, c, today))
  IN  JsonObject(   ("@context" :> JsonString("https://schema.org"))
                 @@ ("@graph" :> JsonArray(<<organization, website>> \o breadcrumbs
                                           \o <<primaryEntity>>)))

\* ---------------------------------------------------------------- validator
\* entity["@type"] === t
TypeIs(entity, t) ==
  Get(entity, "@type").kind = "string" /\ Get(entity, "@type").value = t

\* !entity[key]
Missing(entity, key) == ~Truthy(Get(entity, key))

\* Array.isArray(v)
IsArray(v) == v.kind = "array"

\* isValidUrl that also asks for a path after the host
MutIsValidUrl(url) ==
  /\ ParseUrl(Chars[url]) # <<>>
  /\ \E i \in 9..Len(Chars[url]) : Chars[url][i] = "/"

\* isValidUrl(url) for a string
isValidUrl(url) == ParseUrl(Chars[url]) # <<>>

\* a validate function's pushes on the two lists
Pushed(errors, warnings) == [errors |-> errors, warnings |-> warnings]

validateProduct(entity) ==
  Pushed(   PushIf(Missing(entity, "name"), <<"Product missing required name">>)
         \o PushIf(~Missing(entity, "offers") /\ Missing(Get(entity, "offers"), "price"),
                   <<"Product offer missing price">>)
         \o PushIf(~Missing(entity, "offers")
                     /\ Missing(Get(entity, "offers"), "priceCurrency"),
                   <<"Product offer missing priceCurrency">>),
            PushIf(Missing(entity, "image"),
                   <<"Product missing image - recommended for rich results">>)
         \o PushIf(~Missing(entity, "aggregateRating")
                     /\ Missing(Get(entity, "aggregateRating"), "ratingCount"),
                   <<"AggregateRating missing ratingCount">>))

validateArticle(entity) ==
  Pushed(   PushIf(Missing(entity, "name") /\ Missing(entity, "headline"),
                   <<"Article missing required name or headline">>),
            PushIf(Missing(entity, "author"),
                   <<"Article missing author - recommended for rich results">>)
         \o PushIf(Missing(entity, "datePublished"),
                   <<"Article missing datePublished - recommended for rich results">>)
         \o PushIf(Missing(entity, "image"),
                   <<"Article missing image - recommended for rich results">>)
         \o PushIf(Missing(entity, "publisher"),
                   <<"Article missing publisher - recommended for rich results">>))

validateLocalBusiness(entity) ==
  Pushed(   PushIf(Missing(entity, "name"), <<"LocalBusiness missing required name">>)
         \o PushIf(Missing(entity, "address"), <<"LocalBusiness missing required address">>),
            PushIf(Missing(entity, "telephone"),
                   <<"LocalBusiness missing telephone - recommended for rich results">>)
         \o PushIf(Missing(entity, "openingHours"),
                   <<"LocalBusiness missing openingHours - recommended for rich results">>))

validateEvent(entity) ==
  Pushed(   PushIf(Missing(entity, "name"), <<"Event missing required name">>)
         \o PushIf(Missing(entity, "startDate"), <<"Event missing required startDate">>)
         \o PushIf(Missing(entity, "location"), <<"Event missing required location">>),
         <<>>)

validateRecipe(entity) ==
  Pushed(   PushIf(Missing(entity, "name"), <<"Recipe missing required name">>)
         \o PushIf(Missing(entity, "recipeIngredient")
                     \/ ~IsArray(Get(entity, "recipeIngredient")),
                   <<"Recipe missing required recipeIngredient array">>)
         \o PushIf(Missing(entity, "recipeInstructions")
                     \/ ~IsArray(Get(entity, "recipeInstructions")),
                   <<"Recipe missing required recipeInstructions array">>),
            PushIf(Missing(entity, "image"),
                   <<"Recipe missing image - recommended for rich results">>))

validateOrganization(entity) ==
  Pushed(PushIf(Missing(entity, "name"), <<"Organization missing required name">>),
         PushIf(Missing(entity, "url"), <<"Organization missing URL - recommended">>))

validateWebSite(entity) ==
  Pushed(PushIf(Missing(entity, "url"), <<"WebSite missing required url">>),
         PushIf(Missing(entity, "name"), <<"WebSite missing name - recommended">>))

\* the common validations of url and image, which are strings in the
\* documents validated here
validateUrls(entity) ==
     PushIf(~Missing(entity, "url") /\ ~isValidUrl(Get(entity, "url").value),
            <<"Invalid URL: ", Get(entity, "url").value>>)
  \o PushIf(~Missing(entity, "image") /\ ~isValidUrl(Get(entity, "image").value),
            <<"Invalid image URL: ", Get(entity, "image").value>>)

validateEntity(entity) ==
  IF Missing(entity, "@type") THEN Pushed(<< <<"Entity missing @type">> >>, <<>>)
  ELSE LET typed ==
             CASE TypeIs(entity, "Product") -> validateProduct(entity)
               [] TypeIs(entity, "Article") \/ TypeIs(entity, "BlogPosting") ->
                    validateArticle(entity)
               [] TypeIs(entity, "LocalBusiness") -> validateLocalBusiness(entity)
               [] TypeIs(entity, "Event") -> validateEvent(entity)
               [] TypeIs(entity, "Recipe") -> validateRecipe(entity)
               [] TypeIs(entity, "Organization") -> validateOrganization(entity)
               [] TypeIs(entity, "WebSite") -> validateWebSite(entity)
               [] OTHER -> Pushed(<<>>, <<>>)
       IN  Pushed(typed.errors \o validateUrls(entity), typed.warnings)

\* the pushes of validateEntity over the entities, in order
RECURSIVE validateEntities(_)
validateEntities(entities) ==
  IF Len(entities) = 0 THEN Pushed(<<>>, <<>>)
  ELSE LET first == validateEntity(entities[1])
           rest  == validateEntities(Tail(entities))
       IN  Pushed(first.errors \o rest.errors, first.warnings \o rest.warnings)

\* a && b && ... : the first falsy operand, else the last one
RECURSIVE AndChain(_)
AndChain(operands) ==
  IF Len(operands) = 1 \/ ~Truthy(operands[1]) THEN operands[1]
  ELSE AndChain(Tail(operands))

NonPrimaryTypes == {"Organization", "WebSite", "BreadcrumbList"}

\* the test of graph.find in checkRichResultsEligibility
IsPrimaryEntity(entity) ==
  /\ ~Missing(entity, "@type")
  /\ ~(Get(entity, "@type").kind = "string" /\ Get(entity, "@type").value \in NonPrimaryTypes)

\* the switch with an entity of any other type judged as a LocalBusiness
MutEligibility(primaryEntity) ==
  LET field(key) == Get(primaryEntity, key)
  IN  CASE TypeIs(primaryEntity, "Product") ->
             AndChain(<<field("name"), field("image"), field("offers")>>)
        [] TypeIs(primaryEntity, "Article") \/ TypeIs(primaryEntity, "BlogPosting") ->
             AndChain(<<field("name"), field("image"), field("author"),
                        field("datePublished")>>)
        [] TypeIs(primaryEntity, "Event") ->
             AndChain(<<field("name"), field("startDate"), field("location")>>)
        [] TypeIs(primaryEntity, "Recipe") ->
             AndChain(<<field("name"), field("image"), field("recipeIngredient"),
                        field("recipeInstructions")>>)
        [] OTHER -> AndChain(<<field("name"), field("address")>>)

\* the type-specific switch of checkRichResultsEligibility: the value it returns
Eligibility(primaryEntity) ==
  LET field(key) == Get(primaryEntity, key)
  IN  CASE TypeIs(primaryEntity, "Product") ->
             AndChain(<<field("name"), field("image"), field("offers")>>)
        [] TypeIs(primaryEntity, "Article") \/ TypeIs(primaryEntity, "BlogPosting") ->
             AndChain(<<field("name"), field("image"), field("author"),
                        field("datePublished")>>)
        [] TypeIs(primaryEntity, "LocalBusiness") ->
             AndChain(<<field("name"), field("address")>>)
        [] TypeIs(primaryEntity, "Event") ->
             AndChain(<<field("name"), field("startDate"), field("location")>>)
        [] TypeIs(primaryEntity, "Recipe") ->
             AndChain(<<field("name"), field("image"), field("recipeIngredient"),
                        field("recipeInstructions")>>)
        [] OTHER -> JsonBoolean(TRUE)

\* checkRichResultsEligibility that does not look at the errors
MutCheckRichResultsEligibility(doc, errors) ==
  LET graph == IF IsArray(Get(doc, "@graph")) THEN Get(doc, "@graph").value ELSE <<>>
      found == SelectSeq(graph, IsPrimaryEntity)
  IN  IF Len(found) = 0 THEN JsonBoolean(TRUE)
      ELSE Eligibility(found[1])

\* checkRichResultsEligibility(jsonld, errors, warnings): the value returned;
\* with no errors @graph is an array, else validateSchema pushed an error
checkRichResultsEligibility(doc, errors) ==
  LET graph == IF IsArray(Get(doc, "@graph")) THEN Get(doc, "@graph").value ELSE <<>>
      found == SelectSeq(graph, IsPrimaryEntity)
  IN  IF Len(errors) > 0 THEN JsonBoolean(FALSE)
      ELSE IF Len(found) = 0 THEN JsonBoolean(FALSE)
      ELSE Eligibility(found[1])

\* the elements `for (const entity of graph)` visits: those of an array, the
\* characters of a string
GraphEntities(graph) ==
  IF graph.kind = "string"
  THEN [i \in 1..Len(Chars[graph.value]) |-> JsonString(Chars[graph.value][i])]
  ELSE graph.value

\* validateSchema throws a TypeError: a truthy @graph that is not iterable,
\* or an entity that is null or undefined
ValidateThrows(doc) ==
  LET graph == Get(doc, "@graph")
  IN  /\ Truthy(graph)
      /\ \/ graph.kind \in {"object", "number", "boolean"}
         \/ /\ graph.kind = "array"
            /\ \E i \in 1..Len(graph.value) : graph.value[i].kind \in {"null", "undefined"}

\* validateSchema(jsonld) when it returns
validateSchema(doc) ==
  LET graph == Get(doc, "@graph")
      basic ==    PushIf(Missing(doc, "@context"), <<"Missing @context">>)
               \o PushIf(~Truthy(graph) \/ ~IsArray(graph), <<"Missing or invalid @graph">>)
      entities == IF Truthy(graph) THEN validateEntities(GraphEntities(graph))
                  ELSE Pushed(<<>>, <<>>)
      errors == basic \o entities.errors
  IN  [schemaOrgValid      |-> JsonBoolean(Len(errors) = 0),
       richResultsEligible |-> checkRichResultsEligibility(doc, errors),
       errors              |-> errors,
       warnings            |-> entities.warnings]

\* ------------------------------------------------------ concrete strings
\* page URLs and image URLs
UrlPage == "https://example.com/page"

UrlBlogNews == "https://example.com/blog/news"

UrlImage == "https://example.com/og.png"

\* page texts
TextPlain == "Welcome"

TextEvent == "Buy a ticket at the venue"

TextKitchen == "Ingredients for 4 servings. How to: top 10 tips"

TextRestaurant == "Our restaurant blog: breaking news, rating 5 stars"

UrlShop == "https://www.shop.example/item"

UrlRelative == "/page"

UrlImageRelative == "og.png"

TextShop == "Running shoe $19.99, rated 4.5 out of 5, 12 reviews. Home > Shop > Shoes"

TextArticleDated == "Written by Jane Doe on 2024-05-01"

TextBusiness == "Visit us at 12 Main Street or call 555-123-4567"

TextRecipe == "2 cups flour\n1. Mix well\nStep 2: Serve hot\nBake 30 minutes"

\* hint strings
HintBlank == "  "

HintNoOffersCap3 == "no offers, cap 3"

HintProductStrict == "Product page, strict"

HintAddAndNoOffers == "add offers, no offers"

HintStrictBoth == "strict: include reviews, ignore reviews, no faq"

HintArticleEvent == "event article en-US, enrich video"

HintLocalBusiness == "LocalBusiness, add faq, suppress aggregateRating"

\* pages for the subtype and blog rules
UrlArticle == "https://example.com/article/7"

TextClinicCafe == "Dental clinic and cafe"

TextHotelDental == "Hotel spa and dental care"

TextClinicGym == "Clinic with gym near the inn"

TextInnShop == "Inn with gift shop"

TextShopWorkout == "Shop and workout space"

TextFitnessSalon == "Fitness salon"

TextBeauty == "Beauty"

TextDevNews == "Developer news, rating 5 stars"

TextApiDocs == "API documentation: pros and cons"

TextReviewStars == "Review of the year, 4 stars"

TextFirstPost == "My first Post"

PageTexts ==
  {[url |-> UrlPage, content |-> ""],
   [url |-> UrlPage, content |-> TextPlain],
   [url |-> UrlPage, content |-> TextEvent],
   [url |-> UrlPage, content |-> TextKitchen],
   [url |-> UrlBlogNews, content |-> TextRestaurant]}

\* the hint strings of the requests
Hints ==
  {"", HintBlank, HintNoOffersCap3, HintProductStrict, HintAddAndNoOffers,
   HintStrictBoth, HintArticleEvent, HintLocalBusiness}

\* the hints of the requests whose pages are enumerated widely
ClassifyHints == {"", HintNoOffersCap3, HintProductStrict, HintArticleEvent}

\* ---------------------------------------------------------------- inputs
SignalNames ==
  {"hasPrice", "hasCurrency", "hasAddToCart", "hasSku", "hasRating", "hasReviews",
   "hasNAP", "hasHours", "hasMap", "hasEvent", "hasRecipe", "hasSteps",
   "hasByline", "hasPublishDate", "hasBreadcrumbs", "hasFAQ", "hasVideo", "hasItemList"}

\* the domSignals object in which exactly the signals of S are true
DomSignals(S) ==
  [hasPrice       |-> "hasPrice" \in S,       hasCurrency    |-> "hasCurrency" \in S,
   hasAddToCart   |-> "hasAddToCart" \in S,   hasSku         |-> "hasSku" \in S,
   hasRating      |-> "hasRating" \in S,      hasReviews     |-> "hasReviews" \in S,
   hasNAP         |-> "hasNAP" \in S,         hasHours       |-> "hasHours" \in S,
   hasMap         |-> "hasMap" \in S,         hasEvent       |-> "hasEvent" \in S,
   hasRecipe      |-> "hasRecipe" \in S,      hasSteps       |-> "hasSteps" \in S,
   hasByline      |-> "hasByline" \in S,      hasPublishDate |-> "hasPublishDate" \in S,
   hasBreadcrumbs |-> "hasBreadcrumbs" \in S, hasFAQ         |-> "hasFAQ" \in S,
   hasVideo       |-> "hasVideo" \in S,       hasItemList    |-> "hasItemList" \in S]

\* the signal sets with at most MaxTrueSignals signals of the universe U
SignalSets(U) == {S \in SUBSET U : Cardinality(S) <= MaxTrueSignals}

\* what a page's own JSON-LD can be: none, an entry with a string @type, an
\* entry whose @type is an array followed by one with a string @type, an
\* entry without @type
ExistingJsonLdSet ==
  { <<>>,
    << ("@type" :> JsonString("Article")) >>,
    << ("@type" :> JsonArray(<<"Product">>)), ("@type" :> JsonString("Product")) >>,
    << ("name" :> JsonString("Organization")) >> }

\* the signals applyPolicy reads
PolicySignalNames ==
  {"hasPrice", "hasCurrency", "hasNAP", "hasRating", "hasReviews",
   "hasByline", "hasPublishDate"}

\* the pages handed to classifyPage
ClassifyContents ==
  {[url |-> p.url, content |-> p.content, existingJsonLd |-> e,
    domSignals |-> DomSignals(S), meta |-> EmptyObject] :
     p \in PageTexts, e \in ExistingJsonLdSet, S \in SignalSets(SignalNames)}

\* the pages handed to applyPolicy, which reads domSignals and meta.ogImage
PolicyContents ==
  {[url |-> UrlPage, content |-> TextPlain, existingJsonLd |-> <<>>,
    domSignals |-> DomSignals(S), meta |-> m] :
     S \in SignalSets(PolicySignalNames),
     m \in {EmptyObject, ("ogImage" :> UrlImage)}}

\* the sequences without repetition of at most n elements of S
RECURSIVE SeqsUpTo(_, _)
SeqsUpTo(S, n) ==
  IF n = 0 THEN {<<>>}
  ELSE LET shorter == SeqsUpTo(S, n - 1)
       IN  shorter \cup {Append(q, x) : q \in shorter, x \in S}

FeatureLists ==
  {q \in SeqsUpTo({"offers", "aggregateRating", "reviews", "faq"}, MaxFeatures) :
     \A i, j \in 1..Len(q) : i # j => q[i] # q[j]}

\* the Classification objects handed to applyPolicy
Classifications ==
  [primaryType : {"Product", "LocalBusiness", "Article", "WebPage"},
   subtype     : {Undefined, "Restaurant"},
   confidence  : {50, 90},
   features    : FeatureLists,
   signals     : { <<>>,
                   << <<"Existing JSON-LD: ", "Article">>, <<"Hint: ", "Product">> >> }]

\* ---------------------------------------------------------------- actions
NotYet == "not yet"

\* const hintDirective = parseHint(req.hint || "")
ParseHint ==
  /\ pc = "start"
  /\ directive' = parseHint(hint)
  /\ pc' = "parsed"
  /\ UNCHANGED <<hint, content, classification, classification0, policyResult,
               jsonld, validation>>

\* classifyPage(content, hintDirective) on a NormalizedContent
ClassifyPage ==
  /\ pc = "parsed"
  /\ \E c \in ClassifyContents :
       /\ content' = c
       /\ classification' = classifyPage(c, directive)
  /\ pc' = "classified"
  /\ UNCHANGED <<hint, directive, classification0, policyResult, jsonld, validation>>

\* applyPolicy(classification, content, hintDirective) on a Classification
ApplyPolicy ==
  /\ pc = "parsed"
  /\ \E cls \in Classifications, c \in PolicyContents :
       /\ content' = c
       /\ classification0' = cls
       /\ classification' = [cls EXCEPT !.features = FeaturesAfterPolicy(cls, directive)]
       /\ policyResult' = applyPolicy(cls, c, directive)
  /\ pc' = "policy"
  /\ UNCHANGED <<hint, directive, jsonld, validation>>

Init ==
  /\ pc = "start"
  /\ hint \in Hints
  /\ directive = NotYet
  /\ content = NotYet
  /\ classification = NotYet
  /\ classification0 = NotYet
  /\ policyResult = NotYet
  /\ jsonld = NotYet
  /\ validation = NotYet

InitClassify == Init /\ hint \in ClassifyHints

NextClassify == ParseHint \/ ClassifyPage

SpecClassify == InitClassify /\ [][NextClassify]_vars

NextPolicy == ParseHint \/ ApplyPolicy

SpecPolicy == Init /\ [][NextPolicy]_vars

\* ------------------------------------- inputs of the assembler and validator
\* the dates new Date() can give during a call
Dates == {"2026-11-04", "2026-11-05"}

\* url, canonicalUrl, title, description and meta of the pages handed to
\* assembleSchema: a bare page, a page with every optional field and a
\* canonical URL on another host, a page whose optional strings are empty,
\* a page whose og:image is a relative reference, a page whose canonical
\* URL is one
PageHeads ==
  {[url |-> UrlPage, canonicalUrl |-> Undefined, title |-> "",
    description |-> Undefined, meta |-> EmptyObject],
   [url |-> UrlShop, canonicalUrl |-> UrlPage, title |-> "Acme",
    description |-> "About us",
    meta |-> ("ogImage" :> UrlImage) @@ ("ogTitle" :> "Acme Site")],
   [url |-> UrlPage, canonicalUrl |-> "", title |-> "Acme",
    description |-> "", meta |-> ("ogTitle" :> "Acme Site")],
   [url |-> UrlShop, canonicalUrl |-> Undefined, title |-> "Acme",
    description |-> Undefined, meta |-> ("ogImage" :> UrlImageRelative)],
   [url |-> UrlPage, canonicalUrl |-> UrlRelative, title |-> "Acme",
    description |-> Undefined, meta |-> EmptyObject]}

AssembleTexts ==
  {TextPlain, TextShop, TextArticleDated, TextBusiness, TextRecipe}

\* the signals assembleSchema reads
AssembleSignalNames == {"hasByline", "hasPublishDate", "hasHours"}

\* a NormalizedContent from its head, text, JSON-LD and true signals
Page(head, text, existing, S) ==
  [url |-> head.url, canonicalUrl |-> head.canonicalUrl, title |-> head.title,
   description |-> head.description, content |-> text, existingJsonLd |-> existing,
   domSignals |-> DomSignals(S), meta |-> head.meta]

\* the pages handed to assembleSchema
AssembleContents ==
  {Page(h, t, <<>>, S) :
     h \in PageHeads, t \in AssembleTexts, S \in SignalSets(AssembleSignalNames)}

\* the feature lists of at most MaxFeatures of the features assembleSchema
\* looks for (it tests membership only)
AssembleFeatureLists ==
  {SelectSeq(<<"offers", "aggregateRating", "breadcrumbs">>, LAMBDA f : f \in S) :
     S \in {T \in SUBSET {"offers", "aggregateRating", "breadcrumbs"} :
              Cardinality(T) <= MaxFeatures}}

\* the PolicyResult objects handed to assembleSchema
PolicyResults ==
  {r \in [primaryType  : {"Product", "Article", "BlogPosting", "LocalBusiness", "Event",
                          "Recipe", "HowTo", "ItemList", "Course", "WebPage"},
          subtype      : {Undefined, "NewsArticle", "Restaurant"},
          features     : AssembleFeatureLists,
          confidence   : {90},
          explanations : {<<>>},
          warnings     : {<<>>},
          mentions     : {<<>>, <<"Product">>}] :
     r.subtype = "Restaurant" => r.primaryType = "LocalBusiness"}

\* the values an entity of an enumerated document has under each key
SampleValue ==
     ("name" :> JsonString("Acme"))
  @@ ("url" :> JsonString(UrlPage))
  @@ ("image" :> JsonString(UrlImage))
  @@ ("offers" :> JsonObject(("price" :> JsonString("19.99"))
                             @@ ("priceCurrency" :> JsonString("USD"))))
  @@ ("author" :> JsonObject(("name" :> JsonString("Jane Doe"))))
  @@ ("datePublished" :> JsonString("2024-05-01"))
  @@ ("address" :> JsonObject(("streetAddress" :> JsonString("12 Main Street"))))
  @@ ("startDate" :> JsonString("2025-03-09"))
  @@ ("location" :> JsonObject(("name" :> JsonString("Event Location"))))
  @@ ("recipeIngredient" :> JsonArray(<<JsonString("2 cups flour")>>))
  @@ ("recipeInstructions" :> JsonArray(<<JsonString("Mix well")>>))

\* the keys the validator reads for each type
TypeKeys ==
     ("Product" :> {"name", "image", "offers"})
  @@ ("Article" :> {"name", "image", "author", "datePublished"})
  @@ ("BlogPosting" :> {"name", "image"})
  @@ ("LocalBusiness" :> {"name", "address"})
  @@ ("Event" :> {"name", "startDate", "location"})
  @@ ("Recipe" :> {"name", "image", "recipeIngredient", "recipeInstructions"})
  @@ ("Organization" :> {"name", "url"})
  @@ ("WebSite" :> {"name", "url"})
  @@ ("WebPage" :> {"name", "url"})
  @@ ("BreadcrumbList" :> {})

\* the entity of the type with the sample values of the keys
EntityWith(type, keys) ==
  JsonObject(("@type" :> JsonString(type)) @@ [k \in keys |-> SampleValue[k]])

\* the entities of the enumerated documents: each type with all its keys and
\* with all but one, and entities with a falsy or malformed value
Entities ==
  UNION {{EntityWith(t, K) :
            K \in {TypeKeys[t]} \cup {TypeKeys[t] \ {k} : k \in TypeKeys[t]}} :
         t \in DOMAIN TypeKeys}
  \cup
  { JsonObject(("name" :> JsonString("Acme"))),
    JsonObject(("@type" :> JsonString("Product")) @@ ("name" :> JsonString(""))),
    JsonObject(("@type" :> JsonString("Product")) @@ ("name" :> JsonString("Acme"))
               @@ ("image" :> JsonString(UrlImage))
               @@ ("offers" :> JsonObject(("priceCurrency" :> JsonString("USD"))))),
    JsonObject(("@type" :> JsonString("Article")) @@ ("headline" :> JsonString("Acme"))
               @@ ("image" :> JsonString(UrlImage))),
    JsonObject(("@type" :> JsonString("Recipe")) @@ ("name" :> JsonString("Acme"))
               @@ ("image" :> JsonString(UrlImage))
               @@ ("recipeIngredient" :> JsonString("2 cups flour"))
               @@ ("recipeInstructions" :> JsonArray(<<>>))),
    JsonObject(("@type" :> JsonString("WebPage")) @@ ("url" :> JsonString(UrlRelative))),
    JsonObject(("@type" :> JsonArray(<<JsonString("Product")>>))) }

\* the sequences of at most n elements of S
SeqsOf(S, n) == UNION {[1..k -> S] : k \in 0..n}

SchemaOrgContext == ("@context" :> JsonString("https://schema.org"))

\* the documents handed to validateSchema: with and without @context, with
\* an @graph of at most MaxGraph entities, without @graph, and with an
\* @graph that is a string, an object, or an array holding null
Documents ==
  {JsonObject(ctx @@ ("@graph" :> JsonArray(g))) :
     ctx \in {EmptyObject, SchemaOrgContext}, g \in SeqsOf(Entities, MaxGraph)}
  \cup
  { JsonObject(SchemaOrgContext),
    JsonObject(SchemaOrgContext @@ ("@graph" :> JsonString(TextPlain))),
    JsonObject(SchemaOrgContext @@ ("@graph" :> JsonObject(EmptyObject))),
    JsonObject(SchemaOrgContext @@ ("@graph" :> JsonArray(<<JsNull>>))) }

\* the signals of the pages the whole pipeline runs on
PipelineSignalNames ==
  {"hasPrice", "hasCurrency", "hasNAP", "hasEvent", "hasRecipe",
   "hasByline", "hasPublishDate", "hasRating", "hasBreadcrumbs"}

\* extractJsonLd(html), given what JSON.parse returned for the script blocks
\* it could parse: an array is spread, any other value is pushed as it is.
\* An object entry is kept as the function of its keys.
RECURSIVE extractJsonLd(_)
extractJsonLd(parsed) ==
  IF Len(parsed) = 0 THEN <<>>
  ELSE LET pushed == IF parsed[1].kind = "array" THEN parsed[1].value ELSE <<parsed[1]>>
       IN  [i \in 1..Len(pushed) |->
              IF pushed[i].kind = "object" THEN pushed[i].value ELSE pushed[i]]
           \o extractJsonLd(Tail(parsed))

\* classifyPage throws a TypeError: existingJsonLd[0] is null, so reading
\* its "@type" fails
ClassifyThrows(c) == Len(c.existingJsonLd) > 0 /\ c.existingJsonLd[1] = JsNull

\* what JSON.parse returns for the ld+json script blocks of a page: no
\* block, an object, an array of one object, the literal null
ParsedScripts ==
  { <<>>,
    << JsonObject(("@type" :> JsonString("Article"))) >>,
    << JsonArray(<< JsonObject(("@type" :> JsonString("Article"))) >>) >>,
    << JsNull >> }

\* the pages fetchAndNormalize returns to generate; canonicalUrl is the
\* href of the page's canonical link, whatever it is
PipelineContents ==
  {Page(h, t, extractJsonLd(parsed), S) :
     h \in {g \in PageHeads : g.canonicalUrl # ""},
     t \in {TextPlain, TextShop, TextEvent},
     parsed \in {<<>>, << JsonObject(("@type" :> JsonString("Article"))) >>},
     S \in SignalSets(PipelineSignalNames)}

PipelineHints == {"", HintProductStrict, HintArticleEvent}

\* ------------------------------------------------------ pipeline actions
\* const content = await fetchAndNormalize(req.url, ...): the page is
\* whatever the site serves
FetchAndNormalize ==
  /\ pc = "parsed"
  /\ content' \in PipelineContents
  /\ pc' = "fetched"
  /\ UNCHANGED <<hint, directive, classification, classification0, policyResult,
                 jsonld, validation>>

\* const classification = classifyPage(content, hintDirective); a TypeError
\* ends the request
GenerateClassify ==
  /\ pc = "fetched"
  /\ IF ClassifyThrows(content)
     THEN pc' = "failed" /\ classification' = classification
     ELSE classification' = classifyPage(content, directive) /\ pc' = "classified"
  /\ UNCHANGED <<hint, directive, content, classification0, policyResult,
                 jsonld, validation>>

\* const policyResult = applyPolicy(classification, content, hintDirective)
GeneratePolicy ==
  /\ pc = "classified"
  /\ classification0' = classification
  /\ classification' =
       [classification EXCEPT !.features = FeaturesAfterPolicy(classification, directive)]
  /\ policyResult' = applyPolicy(classification, content, directive)
  /\ pc' = "policy"
  /\ UNCHANGED <<hint, directive, content, jsonld, validation>>

\* const jsonld = assembleSchema(policyResult, content); a TypeError of
\* new URL ends the request
AssembleSchema ==
  /\ pc = "policy"
  /\ IF AssembleThrows(content)
     THEN pc' = "failed" /\ jsonld' = jsonld
     ELSE /\ \E today \in Dates : jsonld' = assembleSchema(policyResult, content, today)
          /\ pc' = "assembled"
  /\ UNCHANGED <<hint, directive, content, classification, classification0,
                 policyResult, validation>>

\* const validation = validateSchema(jsonld); a TypeError ends the request
ValidateSchema ==
  /\ pc = "assembled"
  /\ IF ValidateThrows(jsonld)
     THEN pc' = "failed" /\ validation' = validation
     ELSE validation' = validateSchema(jsonld) /\ pc' = "validated"
  /\ UNCHANGED <<hint, directive, content, classification, classification0,
                 policyResult, jsonld>>

\* the whole request: generate's six steps
InitPipeline == Init /\ hint \in PipelineHints

Next ==
  \/ ParseHint
  \/ FetchAndNormalize
  \/ GenerateClassify
  \/ GeneratePolicy
  \/ AssembleSchema
  \/ ValidateSchema

Spec == InitPipeline /\ [][Next]_vars

\* assembleSchema on any PolicyResult and page, then validateSchema
InitAssemble ==
  /\ pc = "policy"
  /\ hint = ""
  /\ directive = NotYet
  /\ content \in AssembleContents
  /\ classification = NotYet
  /\ classification0 = NotYet
  /\ policyResult \in PolicyResults
  /\ jsonld = NotYet
  /\ validation = NotYet

NextAssemble == AssembleSchema \/ ValidateSchema

SpecAssemble == InitAssemble /\ [][NextAssemble]_vars

\* validateSchema on any document
InitValidate ==
  /\ pc = "assembled"
  /\ hint = ""
  /\ directive = NotYet
  /\ content = NotYet
  /\ classification = NotYet
  /\ classification0 = NotYet
  /\ policyResult = NotYet
  /\ jsonld \in Documents
  /\ validation = NotYet

NextValidate == ValidateSchema

SpecValidate == InitValidate /\ [][NextValidate]_vars

\* ------------------------------------------------------- parseHint alone
\* hints naming two type keywords, in both string orders
TypePairHints ==
  {VALID_TYPES[p[1]] \o " " \o VALID_TYPES[p[2]] :
     p \in {q \in (1..Len(VALID_TYPES)) \X (1..Len(VALID_TYPES)) : q[1] # q[2]}}

\* hints made of one verb and one feature of the vocabulary
FeaturePhraseHints ==
  {v \o f : v \in EnrichVerbs \cup SuppressVerbs, f \in Range(VALID_FEATURES)}

LanguageHints == {"en-US", "reply in fr-CA", "sv-SE or de", "cs-CZ", "in en please"}

ParseHints == TypePairHints \cup FeaturePhraseHints \cup LanguageHints

\* parseHint(hint) on its own
SpecParse ==
  /\ pc = "start"
  /\ hint \in ParseHints
  /\ directive = NotYet
  /\ content = NotYet
  /\ classification = NotYet
  /\ classification0 = NotYet
  /\ policyResult = NotYet
  /\ jsonld = NotYet
  /\ validation = NotYet
  /\ [][ParseHint]_vars

\* ------------------------------------------------- classifyPage's cascade
CascadeSignalNames ==
  {"hasPrice", "hasCurrency", "hasSku", "hasNAP", "hasHours", "hasMap",
   "hasByline", "hasPublishDate", "hasRating"}

CascadeTexts ==
  {TextPlain, TextRestaurant, TextClinicCafe, TextHotelDental, TextClinicGym,
   TextInnShop, TextShopWorkout, TextFitnessSalon, TextBeauty, TextDevNews,
   TextApiDocs, TextReviewStars, TextFirstPost}

\* the pages handed to classifyPage after a fetch
CascadeContents ==
  {[url |-> u, content |-> t, existingJsonLd |-> <<>>,
    domSignals |-> DomSignals(S), meta |-> EmptyObject] :
     u \in {UrlPage, UrlBlogNews, UrlArticle}, t \in CascadeTexts,
     S \in SignalSets(CascadeSignalNames)}
  \cup {[url |-> UrlPage, content |-> TextPlain,
         existingJsonLd |-> extractJsonLd(parsed),
         domSignals |-> DomSignals({}), meta |-> EmptyObject] :
          parsed \in ParsedScripts}

\* classifyPage(content, hintDirective) and applyPolicy(classification,
\* content, hintDirective) after parseHint and the fetch
InitCascade ==
  /\ pc = "fetched"
  /\ hint \in {"", HintProductStrict, HintLocalBusiness}
  /\ directive = parseHint(hint)
  /\ content \in CascadeContents
  /\ classification = NotYet
  /\ classification0 = NotYet
  /\ policyResult = NotYet
  /\ jsonld = NotYet
  /\ validation = NotYet

SpecCascade == InitCascade /\ [][GenerateClassify \/ GeneratePolicy]_vars

\* ------------------------------------- applyPolicy on a directive object
\* HintDirective objects as a caller can build them: every field is optional
Directives ==
  { EmptyObject,
    ("enrich" :> <<"faq">>),
    ("suppress" :> <<"offers">>),
    ("enrich" :> <<"faq">>) @@ ("suppress" :> <<>>),
    ("strictness" :> "strict") @@ ("enrich" :> <<"reviews">>) }

\* applyPolicy(classification, content, hintDirective) on such a directive,
\* a classification and a page
SpecDirective ==
  /\ pc = "classified"
  /\ hint = NotYet
  /\ directive \in Directives
  /\ content \in {c \in PolicyContents :
                     \/ \A n \in PolicySignalNames : ~c.domSignals[n]
                     \/ c.domSignals.hasPrice /\ c.domSignals.hasCurrency
                          /\ c.domSignals.hasNAP /\ c.domSignals.hasRating}
  /\ classification \in {cls \in Classifications :
                            cls.confidence = 90 /\ cls.signals = <<>>}
  /\ classification0 = NotYet
  /\ policyResult = NotYet
  /\ jsonld = NotYet
  /\ validation = NotYet
  /\ [][GeneratePolicy]_vars

\* ------------------------------------------------------ classifier claims
\* the result of classifyPage is in place
Classified == pc = "classified"

\* the feature list holds exactly the features whose signals are set, each
\* once and in the order offers, aggregateRating, reviews, breadcrumbs, faq,
\* video
FeaturesFollowSignals(features, c) ==
  LET Wanted(f) ==
        CASE f = "offers" -> c.domSignals.hasPrice /\ c.domSignals.hasCurrency
          [] f = "aggregateRating" -> c.domSignals.hasRating
          [] f = "reviews" -> c.domSignals.hasReviews
          [] f = "breadcrumbs" -> c.domSignals.hasBreadcrumbs
          [] f = "faq" -> c.domSignals.hasFAQ
          [] f = "video" -> c.domSignals.hasVideo
  IN  features = SelectSeq(<<"offers", "aggregateRating", "reviews",
                             "breadcrumbs", "faq", "video">>, Wanted)

\* C1: with hint.preferredType set, classifyPage returns the hint type as
\* primaryType for every page, with confidence at least 0.7, and the
\* feature list is still the one computed from domSignals.
C1_HintOverrides ==
  (Classified /\ Has(directive, "preferredType")) =>
     /\ classification.primaryType = directive.preferredType
     /\ classification.confidence >= 70
     /\ FeaturesFollowSignals(classification.features, content)

\* C1 witness: a hint for Article on a page whose signals say Product and
\* that has detected features.
C1_Witness ==
  /\ Classified
  /\ Has(directive, "preferredType")
  /\ directive.preferredType = "Article"
  /\ content.domSignals.hasPrice /\ content.domSignals.hasCurrency
  /\ content.domSignals.hasAddToCart
  /\ classification.primaryType = "Article"
  /\ classification.features = <<"offers">>
  /\ classification.confidence = 70

\* C2: without a hint type, a page with hasPrice, hasCurrency and
\* hasAddToCart is classified Product with confidence at least 0.9, whatever
\* its other signals, text and existing JSON-LD.
C2_ProductWins ==
  (/\ Classified
   /\ ~Has(directive, "preferredType")
   /\ content.domSignals.hasPrice
   /\ content.domSignals.hasCurrency
   /\ content.domSignals.hasAddToCart) =>
     /\ classification.primaryType = "Product"
     /\ classification.confidence >= 90

\* C2 witness: a page with the three Product signals that also satisfies the
\* Event predicate and carries JSON-LD of type Article.
C2_Witness ==
  /\ Classified
  /\ ~Has(directive, "preferredType")
  /\ content.domSignals.hasPrice /\ content.domSignals.hasCurrency
  /\ content.domSignals.hasAddToCart /\ ~content.domSignals.hasSku
  /\ isEvent(content)
  /\ Len(content.existingJsonLd) > 0
  /\ classification.primaryType = "Product"

\* the type of the first predicate that holds, in the order of the claim
FirstInOrder(c) ==
  LET order == <<"Product", "LocalBusiness", "Event", "Recipe", "HowTo", "Article", "ItemList">>
      Holds(t) == CASE t = "Product" -> isProduct(c)
                    [] t = "LocalBusiness" -> isLocalBusiness(c)
                    [] t = "Event" -> isEvent(c)
                    [] t = "Recipe" -> isRecipe(c)
                    [] t = "HowTo" -> isHowTo(c)
                    [] t = "Article" -> isArticle(c)
                    [] t = "ItemList" -> isItemList(c)
      hits == {i \in 1..Len(order) : Holds(order[i])}
  IN  IF hits = {} THEN "none" ELSE order[Min(hits)]

\* C3: without a hint type, the primary type is the type of the first
\* predicate that holds in the order Product, LocalBusiness, Event, Recipe,
\* HowTo, Article/BlogPosting, ItemList; when none holds and the page has no
\* JSON-LD of its own the result is WebPage with confidence 0.5.
C3_CascadeOrder ==
  (Classified /\ ~Has(directive, "preferredType")) =>
     LET first == FirstInOrder(content)
     IN  /\ first \notin {"none", "Article"} => classification.primaryType = first
         /\ first = "Article" => classification.primaryType \in {"Article", "BlogPosting"}
         /\ first = "none" => classification.primaryType = "WebPage"
         /\ (first = "none" /\ Len(content.existingJsonLd) = 0) =>
               classification.confidence = 50

\* C3 witness: a page on which both the LocalBusiness and the Event
\* predicate hold, classified LocalBusiness.
C3_Witness ==
  /\ Classified
  /\ ~Has(directive, "preferredType")
  /\ isLocalBusiness(content) /\ isEvent(content)
  /\ classification.primaryType = "LocalBusiness"

\* C3 witness of the default: no predicate holds although signals are set.
C3_WitnessDefault ==
  /\ Classified
  /\ ~Has(directive, "preferredType")
  /\ FirstInOrder(content) = "none"
  /\ content.domSignals.hasEvent
  /\ Len(content.existingJsonLd) = 0
  /\ classification.primaryType = "WebPage"
  /\ classification.confidence = 50

\* C4: when the page's JSON-LD carries a string @type, the confidence of the
\* classification is at least 0.8 in every branch.
C4_ExistingJsonLdFloor ==
  (Classified /\ ExistingStringType(content) # <<>>) =>
     classification.confidence >= 80

\* ---------------------------------------------------------- policy claims
\* the result of applyPolicy is in place
PolicyApplied == pc = "policy"

\* the quality gates downgrade this classification on this page
GateFails(cls, c) ==
  \/ cls.primaryType = "Product" /\ ~c.domSignals.hasPrice
  \/ cls.primaryType = "LocalBusiness" /\ ~c.domSignals.hasNAP

\* C5: a Product without hasPrice, or a LocalBusiness without hasNAP, comes
\* out of applyPolicy as WebPage without subtype, with confidence at most
\* 0.6, a warning that names what is missing and a 'Downgraded from'
\* explanation.
C5_Downgrade ==
  (PolicyApplied /\ GateFails(classification0, content)) =>
     LET in  == classification0
         out == policyResult
     IN  /\ out.primaryType = "WebPage"
         /\ out.subtype = Undefined
         /\ out.confidence <= 60
         /\ Len(out.warnings) >= 1
         /\ in.primaryType = "Product" =>
              "Product requires visible price" \in Range(out.warnings)
         /\ in.primaryType = "LocalBusiness" =>
              "LocalBusiness requires complete contact information" \in Range(out.warnings)
         /\ \E i \in 1..Len(out.explanations) :
              \E reason \in {"No price found", "Incomplete NAP (Name, Address, Phone)"} :
                 out.explanations[i] =
                   <<"Downgraded from ", in.primaryType, " to ", "WebPage", ": ", reason>>

\* C5 witness: a LocalBusiness with subtype Restaurant and confidence 0.9 on
\* a page without NAP has been downgraded.
C5_Witness ==
  /\ PolicyApplied
  /\ classification0.primaryType = "LocalBusiness"
  /\ classification0.subtype = "Restaurant"
  /\ classification0.confidence = 90
  /\ ~content.domSignals.hasNAP
  /\ policyResult.primaryType = "WebPage"
  /\ policyResult.confidence = 60

\* C6: applyPolicy never returns a confidence above the classification's,
\* and returns a lower one only when a quality gate downgraded the type.
C6_ConfidenceNotIncreased ==
  PolicyApplied =>
     LET in  == classification0
         out == policyResult
     IN  /\ out.confidence <= in.confidence
         /\ out.confidence < in.confidence =>
              /\ GateFails(in, content)
              /\ out.primaryType = "WebPage"

\* C6 witness: a downgrade lowered 0.9, and another run kept 0.9 on a
\* Product that passed the gate.
C6_Witness ==
  /\ PolicyApplied
  /\ classification0.primaryType = "Product"
  /\ classification0.confidence = 90
  /\ ~content.domSignals.hasPrice
  /\ policyResult.confidence = 60

\* strict validation drops this feature on this page
StrictDrops(f, c) ==
  \/ f = "offers" /\ ~(c.domSignals.hasPrice /\ c.domSignals.hasCurrency)
  \/ f = "aggregateRating" /\ ~c.domSignals.hasRating
  \/ f = "reviews" /\ ~c.domSignals.hasReviews

IsStrict(d) == Has(d, "strictness") /\ d.strictness = "strict"

\* the features named in both lists of the directive
InBothLists(d) ==
  IF Has(d, "suppress") /\ Has(d, "enrich")
  THEN Range(d.suppress) \cap Range(d.enrich) ELSE {}

\* C7 as stated: every feature named in both hint.suppress and hint.enrich
\* is in the feature list returned by applyPolicy.
C7_EnrichWinsAlways ==
  PolicyApplied =>
     \A f \in InBothLists(directive) : f \in Range(policyResult.features)

\* C7 amended: a feature named in both hint.suppress and hint.enrich is in
\* the returned feature list exactly when strict validation does not drop
\* it (strictness "strict" and the feature's signal missing).
C7_EnrichWinsUnlessStrict ==
  PolicyApplied =>
     \A f \in InBothLists(directive) :
        (f \in Range(policyResult.features))
          <=> ~(IsStrict(directive) /\ StrictDrops(f, content))

\* C7 witness: offers is named in both lists, was detected, and is in the
\* returned list.
C7_Witness ==
  /\ PolicyApplied
  /\ "offers" \in InBothLists(directive)
  /\ "offers" \in Range(classification0.features)
  /\ "offers" \in Range(policyResult.features)

\* C8 as stated: a feature that parseHint lists in both enrich and suppress
\* is absent from the final feature list.
C8_SuppressWins ==
  PolicyApplied =>
     \A f \in InBothLists(directive) : f \notin Range(policyResult.features)

\* C8 amended: for a feature that parseHint lists in both enrich and
\* suppress the policy applies suppress before enrich: the feature is
\* removed and then added again (an 'Added feature' explanation is recorded
\* and it comes last among the features the hint step leaves), so it is in
\* the final list unless strict validation drops it.
C8_SuppressThenEnrich ==
  PolicyApplied =>
     \A f \in InBothLists(directive) :
        /\ <<"Added feature: ", f>> \in Range(policyResult.explanations)
        /\ ~(IsStrict(directive) /\ StrictDrops(f, content)) =>
             /\ f \in Range(policyResult.features)
             /\ \A i, j \in 1..Len(policyResult.features) :
                  (/\ policyResult.features[i] = f
                   /\ policyResult.features[j] \in Range(classification0.features)
                   /\ policyResult.features[j] # f) => j < i

\* C8 witness: the hint "add offers, no offers" on a classification whose
\* features start with offers: offers has moved behind the feature kept.
C8_Witness ==
  /\ PolicyApplied
  /\ hint = HintAddAndNoOffers
  /\ classification0.features = <<"offers", "faq">>
  /\ policyResult.features = <<"faq", "offers">>

\* C9: a feature named in hint.suppress and not in hint.enrich is absent
\* from the returned feature list; the hint "no offers, cap 3" parses to
\* suppress containing offers and maxItems 3, and on a Product
\* classification with offers detected the returned list has no offers.
C9_Suppressed ==
  /\ (pc # "start" /\ hint = HintNoOffersCap3) =>
        /\ Has(directive, "suppress") /\ "offers" \in Range(directive.suppress)
        /\ Has(directive, "maxItems") /\ directive.maxItems = 3
  /\ PolicyApplied =>
        /\ Has(directive, "suppress") =>
             \A f \in Range(directive.suppress) :
                (~Has(directive, "enrich") \/ f \notin Range(directive.enrich))
                   => f \notin Range(policyResult.features)
        /\ (/\ hint = HintNoOffersCap3
            /\ classification0.primaryType = "Product"
            /\ "offers" \in Range(classification0.features)) =>
               "offers" \notin Range(policyResult.features)

\* C9 witness: "no offers, cap 3" on a Product with offers and faq detected
\* and a price on the page: the Product is kept and only faq is left.
C9_Witness ==
  /\ PolicyApplied
  /\ hint = HintNoOffersCap3
  /\ classification0.primaryType = "Product"
  /\ classification0.features = <<"offers", "faq">>
  /\ content.domSignals.hasPrice
  /\ policyResult.primaryType = "Product"
  /\ policyResult.features = <<"faq">>

\* C10: under strictness "strict" the returned list is the list left by the
\* hint step without the features that fail their check (offers needs
\* hasPrice and hasCurrency, aggregateRating hasRating, reviews hasReviews),
\* in the same order, with one warning per dropped feature; otherwise the
\* step drops nothing and warns of nothing.
C10_StrictFilter ==
  PolicyApplied =>
     LET in     == classification0
         out    == policyResult
         before == HintFeatures(in.features, directive).features
         Passes(f) == ~StrictDrops(f, content)
         gateWarnings == IF GateFails(in, content) THEN 1 ELSE 0
     IN  IF IsStrict(directive)
         THEN /\ out.features = SelectSeq(before, Passes)
              /\ Len(out.warnings) = gateWarnings + (Len(before) - Len(out.features))
         ELSE /\ out.features = before
              /\ Len(out.warnings) = gateWarnings

\* C10 witness: a strict hint, offers and faq in the list, a price but no
\* currency on the page: offers is dropped with its warning, faq is kept.
C10_Witness ==
  /\ PolicyApplied
  /\ IsStrict(directive)
  /\ classification0.features = <<"offers", "faq">>
  /\ content.domSignals.hasPrice /\ ~content.domSignals.hasCurrency
  /\ policyResult.features = <<"faq">>
  /\ "Offers feature requires visible price and currency"
        \in Range(policyResult.warnings)

\* ------------------------------------------------- claims on the policy result
MissingImageWarning == "No featured image found - may affect rich results"

\* C11: whenever content.meta.ogImage is absent, the warnings returned by
\* applyPolicy contain the missing-image warning, for every primary type and
\* whether or not a downgrade happened.
C11_MissingImageWarning ==
  (PolicyApplied /\ ~Has(content.meta, "ogImage"))
     => MissingImageWarning \in Range(policyResult.warnings)

\* the first parts of the explanations applyPolicy writes itself
PolicyExplanationHeads ==
  {"Downgraded from ", "Suppressed features: ", "Added feature: ",
   "Conflicting types moved to mentions: "}

\* C13: the explanations returned by applyPolicy end with
\* classification.signals verbatim and in order, and every explanation
\* before them is one of the policy's own (downgrade, suppressed features,
\* added feature, conflicting types).
C13_SignalsLast ==
  PolicyApplied =>
     LET e == policyResult.explanations
         s == classification0.signals
         n == Len(e) - Len(s)
     IN  /\ n >= 0
         /\ SubSeq(e, n + 1, Len(e)) = s
         /\ \A i \in 1..n : e[i][1] \in PolicyExplanationHeads

\* C13 witness: a downgrade explanation, a suppressed-features explanation
\* and a conflicting-types explanation precede two signals.
C13_Witness ==
  /\ PolicyApplied
  /\ Len(classification0.signals) = 2
  /\ Len(policyResult.explanations) = 5
  /\ policyResult.explanations[1][1] = "Downgraded from "
  /\ policyResult.explanations[4] = classification0.signals[1]

\* --------------------------------------------- claims on the JSON-LD document
\* assembleSchema has returned a document
Assembled == pc \in {"assembled", "validated"}

\* the nodes of the document's @graph
Graph == Get(jsonld, "@graph").value

\* the primary entity: the node pushed last
PrimaryNode == Graph[Len(Graph)]

\* the indices of the nodes whose @type is t
NodesOfType(t) == {i \in 1..Len(Graph) : TypeIs(Graph[i], t)}

\* C12: no type name in PolicyResult.mentions is the @type of the primary
\* entity of the document, in any run of the pipeline (parseHint,
\* classifyPage, applyPolicy, assembleSchema).
C12_MentionsNotPrimaryType ==
  Assembled =>
     \A i \in 1..Len(policyResult.mentions) :
        ~TypeIs(PrimaryNode, policyResult.mentions[i])

\* C14: the @graph has exactly one Organization node, at index 0, with @id
\* {siteUrl}/#organization; exactly one WebSite node, at index 1, with @id
\* {siteUrl}/#website; at most one BreadcrumbList; and exactly one primary
\* entity, placed last, whose @type is the subtype if present, else the
\* primary type.
C14_GraphShape ==
  Assembled =>
     LET n == Len(Graph)
         siteUrl == SiteUrl(content)[1]
     IN  /\ n \in {3, 4}
         /\ NodesOfType("Organization") = {1}
         /\ Get(Graph[1], "@id") = JsonString(siteUrl \o "/#organization")
         /\ NodesOfType("WebSite") = {2}
         /\ Get(Graph[2], "@id") = JsonString(siteUrl \o "/#website")
         /\ Cardinality(NodesOfType("BreadcrumbList")) <= 1
         /\ {i \in 1..n : \A t \in NonPrimaryTypes : ~TypeIs(Graph[i], t)} = {n}
         /\ TypeIs(PrimaryNode, IF policyResult.subtype \notin {Undefined, ""}
                                THEN policyResult.subtype
                                ELSE policyResult.primaryType)

\* C14 witness: a page on www.shop.example whose canonical URL is on
\* example.com, with breadcrumbs and a subtype: four nodes, the site nodes
\* named after the canonical host, the primary entity last with the subtype.
C14_Witness ==
  /\ Assembled
  /\ content.url = UrlShop
  /\ policyResult.primaryType = "Article"
  /\ policyResult.subtype = "NewsArticle"
  /\ Len(Graph) = 4
  /\ Get(Graph[1], "@id") = JsonString("https://example.com/#organization")
  /\ TypeIs(Graph[3], "BreadcrumbList")
  /\ TypeIs(Graph[4], "NewsArticle")

\* the keys of a node whose value is a {"@id": ...} pointer
PointerKeys(node) ==
  {k \in DOMAIN node.value :
     node.value[k].kind = "object" /\ DOMAIN node.value[k].value = {"@id"}}

\* the @id values a node points to
PointerTargets(node) == {node.value[k].value["@id"].value : k \in PointerKeys(node)}

\* node i of the graph is referenced by a pointer of another node
Referenced(i) ==
  \E j \in 1..Len(Graph) :
     j # i /\ Get(Graph[i], "@id").value \in PointerTargets(Graph[j])

\* C15 as stated: each node of the graph that has an @id is referenced by an
\* {"@id": ...} pointer from some other node of the same graph.
C15_EveryNodeReferenced ==
  Assembled =>
     \A i \in 1..Len(Graph) : "@id" \in DOMAIN Graph[i].value => Referenced(i)

\* C15 amended: every {"@id": ...} pointer of the graph refers to the @id
\* of another node of the same graph; the Organization node is referenced
\* (by the WebSite node's publisher); the WebSite node is referenced exactly
\* when the primary type is Article, BlogPosting or one handled by the
\* default (WebPage) branch; the BreadcrumbList node and the primary entity
\* are never referenced.
C15_PointersResolve ==
  Assembled =>
     LET n == Len(Graph)
     IN  /\ \A j \in 1..n : \A id \in PointerTargets(Graph[j]) :
               \E i \in 1..n : i # j /\ Get(Graph[i], "@id") = JsonString(id)
         /\ Get(Graph[1], "@id").value \in PointerTargets(Graph[2])
         /\ Referenced(2) <=>
               policyResult.primaryType \notin
                  {"Product", "LocalBusiness", "Event", "Recipe", "HowTo", "ItemList"}
         /\ \A i \in 3..n : ~Referenced(i)

\* C15 witness: a Product page with breadcrumbs: the Organization is
\* referenced, the WebSite, the BreadcrumbList and the Product are not.
C15_Witness ==
  /\ Assembled
  /\ policyResult.primaryType = "Product"
  /\ Len(Graph) = 4
  /\ Referenced(1)
  /\ ~Referenced(2)
  /\ ~Referenced(3)
  /\ ~Referenced(4)

\* validateSchema has returned
Validated == pc = "validated"

\* C16: the document assembled for primary type WebPage with no subtype, no
\* features and no mentions from a page with no description and no ogImage
\* validates with no errors (schemaOrgValid true) and is reported
\* rich-results eligible (true).
C16_BareWebPageValid ==
  (/\ Validated
   /\ policyResult.primaryType = "WebPage"
   /\ policyResult.subtype = Undefined
   /\ policyResult.features = <<>>
   /\ policyResult.mentions = <<>>
   /\ content.description \in {Undefined, ""}
   /\ ~Has(content.meta, "ogImage"))
     => /\ validation.errors = <<>>
        /\ validation.schemaOrgValid = JsonBoolean(TRUE)
        /\ validation.richResultsEligible = JsonBoolean(TRUE)

\* C16 witness: the bare WebPage of a page without a title was validated
\* and is eligible.
C16_Witness ==
  /\ Validated
  /\ policyResult.primaryType = "WebPage"
  /\ policyResult.subtype = Undefined
  /\ policyResult.features = <<>>
  /\ policyResult.mentions = <<>>
  /\ content.description = Undefined
  /\ content.title = ""
  /\ content.meta = EmptyObject
  /\ Get(PrimaryNode, "name") = JsonString("")
  /\ validation.richResultsEligible = JsonBoolean(TRUE)

\* C17: for every primary type other than Event assembleSchema is
\* deterministic: the document does not depend on the date of the call.
C17_DeterministicUnlessEvent ==
  (Assembled /\ policyResult.primaryType # "Event")
     => \A today \in Dates : assembleSchema(policyResult, content, today) = jsonld

\* C18: the Event entity carries a non-empty startDate and a location that
\* is a Place node, and validateSchema reports neither 'Event missing
\* required startDate' nor 'Event missing required location'.
C18_EventDateAndLocation ==
  (Validated /\ policyResult.primaryType = "Event")
     => /\ Get(PrimaryNode, "startDate").kind = "string"
        /\ Get(PrimaryNode, "startDate").value # ""
        /\ TypeIs(Get(PrimaryNode, "location"), "Place")
        /\ <<"Event missing required startDate">> \notin Range(validation.errors)
        /\ <<"Event missing required location">> \notin Range(validation.errors)

\* C18 witness: an Event page whose text has no date was validated as an
\* Event: its startDate is the date of the call.
C18_Witness ==
  /\ Validated
  /\ policyResult.primaryType = "Event"
  /\ TypeIs(PrimaryNode, "Event")
  /\ content.content = TextPlain
  /\ Get(PrimaryNode, "startDate").value \in Dates

\* C18 witness: an Event page whose text has a date.
C18_WitnessDated ==
  /\ Validated
  /\ policyResult.primaryType = "Event"
  /\ TypeIs(PrimaryNode, "Event")
  /\ Get(PrimaryNode, "startDate") = JsonString("2024-05-01")

\* the graph of a validated document, empty when @graph is not an array
ValidatedGraph == IF IsArray(Get(jsonld, "@graph")) THEN Graph ELSE <<>>

\* the graph has an entity with an @type that is not Organization, WebSite
\* or BreadcrumbList
HasPrimaryEntity ==
  \E i \in 1..Len(ValidatedGraph) :
     /\ Truthy(Get(ValidatedGraph[i], "@type"))
     /\ \A t \in NonPrimaryTypes : ~TypeIs(ValidatedGraph[i], t)

\* C19: validateSchema reports the page eligible only if the errors list is
\* empty and the graph has an entity whose @type is not Organization,
\* WebSite or BreadcrumbList; a schema-valid graph without one is ineligible.
C19_EligibleOnlyIf ==
  Validated =>
     /\ Truthy(validation.richResultsEligible)
          => (validation.errors = <<>> /\ HasPrimaryEntity)
     /\ (validation.schemaOrgValid = JsonBoolean(TRUE) /\ ~HasPrimaryEntity)
          => validation.richResultsEligible = JsonBoolean(FALSE)

\* C19 witness: a graph of an Organization and a WebSite is schema-valid
\* and ineligible.
C19_Witness ==
  /\ Validated
  /\ Len(ValidatedGraph) = 2
  /\ TypeIs(Graph[1], "Organization")
  /\ TypeIs(Graph[2], "WebSite")
  /\ validation.schemaOrgValid = JsonBoolean(TRUE)
  /\ validation.richResultsEligible = JsonBoolean(FALSE)

\* C19 witness: a graph with a WebPage and no errors is eligible.
C19_WitnessEligible ==
  /\ Validated
  /\ validation.errors = <<>>
  /\ Len(ValidatedGraph) = 2
  /\ TypeIs(Graph[2], "WebPage")
  /\ validation.richResultsEligible = JsonBoolean(TRUE)

\* C20: schemaOrgValid and richResultsEligible are both booleans, and
\* schemaOrgValid is true exactly when errors is empty, whatever the type of
\* the primary entity and whichever of its fields are present.
C20_BooleanResults ==
  Validated =>
     /\ validation.schemaOrgValid.kind = "boolean"
     /\ validation.richResultsEligible.kind = "boolean"
     /\ validation.schemaOrgValid.value <=> (validation.errors = <<>>)

\* ------------------------------------------------- claims on error handling
\* C21: validateSchema never throws: for every document, also one whose
\* @graph is missing, is not an array, or holds an entry that is not an
\* object, it returns a ValidationResult, and the errors list of that result
\* reports the structural problem.
C21_ValidateNeverThrows ==
  /\ pc # "failed"
  /\ Validated =>
       LET graph == Get(jsonld, "@graph")
       IN  /\ (~Truthy(graph) \/ ~IsArray(graph))
                => <<"Missing or invalid @graph">> \in Range(validation.errors)
           /\ (IsArray(graph) /\ \E i \in 1..Len(graph.value) : graph.value[i].kind # "object")
                => <<"Entity missing @type">> \in Range(validation.errors)

\* C22: for every NormalizedContent fetchAndNormalize can return for a valid
\* absolute page URL, classifyPage, applyPolicy and assembleSchema each
\* return a result object: a request never ends in an exception before its
\* document is assembled.
C22_StagesTotal == pc = "failed" => jsonld # NotYet

\* ------------------------------------------------------ claims on parseHint
Parsed == pc = "parsed"

\* the type keywords the hint contains, as indexes of VALID_TYPES
TypesNamed ==
  {i \in 1..Len(VALID_TYPES) :
     Includes(ToLowerCase(Chars[hint]), ToLowerCase(Chars[VALID_TYPES[i]]))}

\* where keyword i first occurs in the hint
TypePosition(i) ==
  Min({k \in 1..Len(Chars[hint]) :
         MatchAt(ToLowerCase(Chars[hint]), k, ToLowerCase(Chars[VALID_TYPES[i]]))})

\* C23: when a hint contains two or more different type keywords,
\* preferredType is the one that comes first in the VALID_TYPES list, whatever
\* the order of the keywords in the hint string.
C23_ListOrderPrecedence ==
  (Parsed /\ Cardinality(TypesNamed) >= 2) =>
    /\ Has(directive, "preferredType")
    /\ \E i \in TypesNamed :
         /\ directive.preferredType = VALID_TYPES[i]
         /\ \A j \in TypesNamed : i <= j

\* a hint whose second keyword, in string order, is the earlier one of the list
C23_Witness ==
  /\ Parsed
  /\ \E i, j \in TypesNamed :
       /\ i < j
       /\ TypePosition(j) < TypePosition(i)
       /\ directive.preferredType = VALID_TYPES[i]

\* C24: when the hint contains a BCP-47 tag of the form xx-XX, language is
\* that tag: it replaces the two-letter code.
C24_BcpTagWins ==
  (Parsed /\ hint \in {"en-US", "reply in fr-CA", "sv-SE or de", "cs-CZ"}) =>
    /\ Has(directive, "language")
    /\ \E i \in 1..(Len(Chars[hint]) - 4) :
         directive.language = SubSeq(Chars[hint], i, i + 4)

\* C25: for every feature f of VALID_FEATURES, the phrases "include f",
\* "add f" and "enrich f" put f into enrich, and "ignore f", "suppress f" and
\* "no f" put f into suppress.
C25_EveryFeaturePhrase ==
  Parsed =>
    \A f \in Range(VALID_FEATURES) :
      /\ (\E v \in EnrichVerbs : Includes(Chars[hint], Chars[v \o f]))
           => f \in Range(directive.enrich)
      /\ (\E v \in SuppressVerbs : Includes(Chars[hint], Chars[v \o f]))
           => f \in Range(directive.suppress)

\* ------------------------------------------- claims on subtypes and blogs
\* the page text and URL as the predicates read them
PageText == ToLowerCase(Chars[content.content])

PageUrl == ToLowerCase(Chars[content.url])

\* the cascade decides the type: the directive carries no preferredType
NoTypeHint == ~Has(directive, "preferredType")

\* the keyword groups of a local business, in the order they are tested
BusinessGroups ==
  << <<"Restaurant", {"restaurant", "cafe", "diner", "bistro", "eatery"}>>,
     <<"Dentist", {"dentist", "dental", "orthodontist"}>>,
     <<"MedicalOrganization", {"doctor", "physician", "medical", "clinic"}>>,
     <<"LodgingBusiness", {"hotel", "motel", "inn", "lodge"}>>,
     <<"Store", {"store", "shop", "retail", "boutique"}>>,
     <<"ExerciseGym", {"gym", "fitness", "workout"}>>,
     <<"BeautySalon", {"salon", "spa", "beauty"}>> >>

BusinessGroupsMatching ==
  {i \in 1..Len(BusinessGroups) : TestAny(PageText, Words(BusinessGroups[i][2]))}

\* the article groups that match, 1 NewsArticle, 2 TechArticle, 3 Review
ArticleGroupsMatching ==
  {i \in 1..3 :
     \/ i = 1 /\ (\/ TestAny(PageText, Words({"news", "breaking", "reuters", "ap news", "cnn", "bbc"}))
                  \/ Includes(PageUrl, Chars["news"]))
     \/ i = 2 /\ TestAny(PageText, Words({"documentation", "api", "technical", "developer",
                                          "programming", "code"}))
     \/ i = 3 /\ TestAny(PageText, Words({"review of", "rating", "stars", "pros and cons"}))
              /\ content.domSignals.hasRating}

NamesBlogOrPost ==
  \/ TestAny(PageUrl, Words({"blog", "post"}))
  \/ TestAny(PageText, Words({"blog", "post"}))

\* C27: when the Article predicate is the first of the cascade to hold
\* (byline and publish date, no type hint), the type is BlogPosting if the URL
\* or the content contains "blog" or "post", and Article in every other case.
C27_BlogOrArticle ==
  (/\ Classified
   /\ NoTypeHint
   /\ content.domSignals.hasByline /\ content.domSignals.hasPublishDate
   /\ classification.primaryType \notin {"Product", "LocalBusiness", "Event", "Recipe", "HowTo"})
    => classification.primaryType = IF NamesBlogOrPost THEN "BlogPosting" ELSE "Article"

\* ---------------------------------------------------- claims on the frame
\* C28: no stage changes its inputs: when applyPolicy has returned, the
\* features and the signals of the classification it was given hold exactly
\* the elements they held before the call, whatever lists the directive
\* carries.
C28_InputsUntouched ==
  pc = "policy" =>
    /\ classification.features = classification0.features
    /\ classification.signals = classification0.signals

\* ------------------------------------------ claims on subtyped documents
\* the messages of the Article and LocalBusiness checks
TypedMessages ==
  { <<"Article missing required name or headline">>,
    <<"Article missing author - recommended for rich results">>,
    <<"Article missing datePublished - recommended for rich results">>,
    <<"Article missing image - recommended for rich results">>,
    <<"Article missing publisher - recommended for rich results">>,
    <<"LocalBusiness missing required name">>,
    <<"LocalBusiness missing required address">>,
    <<"LocalBusiness missing telephone - recommended for rich results">>,
    <<"LocalBusiness missing openingHours - recommended for rich results">> }

\* C29: the validator chooses its checks and its eligibility rule by the exact
\* @type string: a primary entity assembled with a subtype as @type
\* (Restaurant, NewsArticle) gets none of the Article or LocalBusiness errors
\* and warnings, and the document is reported eligible whenever it has no
\* errors, whatever fields the entity lacks.
C29_SubtypeSkipsTypedChecks ==
  (Validated /\ policyResult.subtype # Undefined) =>
    /\ TypeIs(PrimaryNode, policyResult.subtype)
    /\ TypedMessages \cap (Range(validation.errors) \cup Range(validation.warnings)) = {}
    /\ validation.errors = <<>> => validation.richResultsEligible = JsonBoolean(TRUE)

\* a Restaurant without an address, reported eligible
C29_Witness ==
  /\ Validated
  /\ policyResult.primaryType = "LocalBusiness"
  /\ TypeIs(PrimaryNode, "Restaurant")
  /\ Missing(PrimaryNode, "address")
  /\ Missing(PrimaryNode, "image")
  /\ validation.errors = <<>>
  /\ validation.richResultsEligible = JsonBoolean(TRUE)

\* ------------------------------------- claims on classifier and policy
\* the quality gates replaced the classifier's type
Downgraded == policyResult.primaryType # classification0.primaryType

\* C30: when applyPolicy follows classifyPage on the same page, the quality
\* gates downgrade to WebPage only a type that came from the hint's
\* preferredType: a Product or LocalBusiness found by the cascade has hasPrice,
\* respectively hasNAP, and keeps its type; a downgraded result has no
\* subtype.
C30_DowngradeOnlyAfterHint ==
  pc = "policy" =>
    /\ Downgraded =>
         /\ Has(directive, "preferredType")
         /\ classification0.primaryType = directive.preferredType
         /\ policyResult.primaryType = "WebPage"
         /\ policyResult.subtype = Undefined
    /\ (NoTypeHint /\ classification0.primaryType = "Product") =>
         content.domSignals.hasPrice /\ policyResult.primaryType = "Product"
    /\ (NoTypeHint /\ classification0.primaryType = "LocalBusiness") =>
         content.domSignals.hasNAP /\ policyResult.primaryType = "LocalBusiness"

\* a hinted Product on a page without a price, downgraded
C30_Witness ==
  /\ pc = "policy"
  /\ hint = HintProductStrict
  /\ ~content.domSignals.hasPrice
  /\ Downgraded
  /\ policyResult.primaryType = "WebPage"

\* a Restaurant found by the cascade keeps type and subtype
C30_WitnessCascade ==
  /\ pc = "policy"
  /\ NoTypeHint
  /\ classification0.primaryType = "LocalBusiness"
  /\ policyResult.primaryType = "LocalBusiness"
  /\ policyResult.subtype = "Restaurant"
====
